---- MODULE Spec2Model ----
(***************************************************************************)
(* Nano-LLM-Cache: the semantic cache engine (cache.ts), its entry store   *)
(* (storage.ts, over the idb-keyval key-value store) and the similarity    *)
(* function (similarity.ts).                                               *)
(*                                                                         *)
(* Strings are sequences of UTF-16 code units.  Embeddings are integer     *)
(* vectors of Euclidean norm 5 (a unit vector scaled by 5; the cosine does *)
(* not depend on the scale), similarities are exact rationals [n, d].      *)
(***************************************************************************)
EXTENDS Integers, Sequences, FiniteSets, TLC

\* ------------------------------------------------------------------------
\* Bounds of the model
\* ------------------------------------------------------------------------

\* Date.now() ranges over 0..MaxTime.
MaxTime == 2

\* The key-value store holds at most MaxKeys keys; a write of a new key to a
\* full store fails with a StorageError (quota exceeded).
MaxKeys == 2

\* ------------------------------------------------------------------------
\* Strings
\* ------------------------------------------------------------------------

\* ":" as a code unit, the separator of `${this.prefix}:${id}`.
Colon == 58

\* key.startsWith(prefix)
StartsWith(key, prefix) ==
    /\ Len(key) >= Len(prefix)
    /\ SubSeq(key, 1, Len(prefix)) = prefix

\* Order of two strings by code units, the order in which the key-value
\* store lists its keys.
RECURSIVE LexLess(_, _)
LexLess(s, t) ==
    IF t = <<>> THEN FALSE
    ELSE IF s = <<>> THEN TRUE
    ELSE IF Head(s) # Head(t) THEN Head(s) < Head(t)
    ELSE LexLess(Tail(s), Tail(t))

\* ------------------------------------------------------------------------
\* hashPrompt: 32-bit string hash, printed in base 36
\* ------------------------------------------------------------------------

\* A 32-bit integer is a pair <<hi, lo>> of 16-bit halves (its two's
\* complement bit pattern).
Half == 65536

\* hash = ((hash << 5) - hash) + char; hash = hash & hash
HashStep(h, char) ==
    LET lo == h[2] * 31 + char
        hi == h[1] * 31 + (lo \div Half)
    IN  <<hi % Half, lo % Half>>

\* The loop of hashPrompt over prompt[i..], from the hash h.
RECURSIVE HashLoop(_, _, _)
HashLoop(h, prompt, i) ==
    IF i > Len(prompt) THEN h
    ELSE HashLoop(HashStep(h, prompt[i]), prompt, i + 1)

\* Math.abs of a 32-bit integer: the negation of a negative bit pattern.
\* Math.abs(-2^31) is 2^31, the pair <<32768, 0>>.
MathAbs(h) ==
    IF h[1] < 32768 THEN h
    ELSE LET lo == (Half - h[2]) % Half
             hi == ((Half - 1) - h[1] + (IF h[2] = 0 THEN 1 ELSE 0)) % Half
         IN  <<hi, lo>>

\* The character of a base-36 digit: "0".."9", "a".."z".
DigitChar(d) == IF d < 10 THEN 48 + d ELSE 87 + d

\* The base-36 digits of the non-negative number <<hi, lo>>, most
\* significant first, by long division; <<>> for zero.
RECURSIVE Digits36(_)
Digits36(h) ==
    IF h = <<0, 0>> THEN <<>>
    ELSE LET t  == (h[1] % 36) * Half + h[2]
             q  == <<h[1] \div 36, t \div 36>>
         IN  Digits36(q) \o <<DigitChar(t % 36)>>

\* Number.prototype.toString(36) of a non-negative integer.
ToString36(h) == IF h = <<0, 0>> THEN <<DigitChar(0)>> ELSE Digits36(h)

\* NanoCache.hashPrompt
hashPrompt(prompt) == ToString36(MathAbs(HashLoop(<<0, 0>>, prompt, 1)))

\* hashPrompt without Math.abs: toString(36) prints a negative hash with a
\* leading "-".
hashPromptSigned(prompt) ==
    LET h == HashLoop(<<0, 0>>, prompt, 1)
    IN  IF h[1] < 32768 THEN ToString36(h) ELSE <<45>> \o ToString36(MathAbs(h))

\* CacheStorage.hashPrompt, the copy the expiration sweep uses.
storageHashPrompt(prompt) == ToString36(MathAbs(HashLoop(<<0, 0>>, prompt, 1)))

\* getKey without the id: every entry of a namespace under one key.
getKeyNoId(prefix, id) == prefix \o <<Colon>>

\* CacheStorage.getKey
getKey(prefix, id) == prefix \o <<Colon>> \o id

\* ------------------------------------------------------------------------
\* Rationals
\* ------------------------------------------------------------------------

RECURSIVE Gcd(_, _)
Gcd(a, b) == IF b = 0 THEN a ELSE Gcd(b, a % b)

Abs(x) == IF x < 0 THEN -x ELSE x

\* The rational n/d (d > 0) in lowest terms.
Rat(n, d) ==
    LET g == Gcd(Abs(n), d)
    IN  [n |-> n \div g, d |-> d \div g]

RLess(x, y) == x.n * y.d < y.n * x.d
RLeq(x, y) == x.n * y.d <= y.n * x.d
RZero == Rat(0, 1)
ROne == Rat(1, 1)

\* ------------------------------------------------------------------------
\* similarity.ts
\* ------------------------------------------------------------------------

\* sum over i of a[i] * b[i], the accumulation of the single loop.
RECURSIVE Dot(_, _, _)
Dot(a, b, i) ==
    IF i > Len(a) THEN 0 ELSE a[i] * b[i] + Dot(a, b, i + 1)

\* Math.sqrt, on the perfect squares the embeddings of the model produce.
MathSqrt(x) == CHOOSE r \in 0..x : r * r = x

\* Math.max(0, Math.min(1, similarity))
Clamp(s) ==
    LET lo == IF RLess(ROne, s) THEN ROne ELSE s
    IN  IF RLess(lo, RZero) THEN RZero ELSE lo

\* calculateSimilarity: [threw |-> TRUE] for 'Vectors must have the same
\* length', otherwise the clamped cosine.
calculateSimilarity(vecA, vecB) ==
    IF Len(vecA) # Len(vecB) THEN [threw |-> TRUE, value |-> RZero]
    ELSE IF Len(vecA) = 0 THEN [threw |-> FALSE, value |-> RZero]
    ELSE LET dotProduct == Dot(vecA, vecB, 1)
             magnitudeA == MathSqrt(Dot(vecA, vecA, 1))
             magnitudeB == MathSqrt(Dot(vecB, vecB, 1))
         IN  IF magnitudeA = 0 \/ magnitudeB = 0
             THEN [threw |-> FALSE, value |-> RZero]
             ELSE [threw |-> FALSE,
                   value |-> Clamp(Rat(dotProduct, magnitudeA * magnitudeB))]

\* ------------------------------------------------------------------------
\* similarity.ts in IEEE-754 double arithmetic
\* ------------------------------------------------------------------------

\* The doubles of the model are NaN, the infinities and the finite values
\* (n / d) * 2^x with |n| < 2^30.  d is 1 except in the result of a
\* division, where the record stands for the double nearest to the
\* quotient.  n is odd or zero, so equal values are equal records.  The
\* sign of a zero is not kept.
\* The arithmetic below is exact IEEE-754 arithmetic (round to nearest,
\* overflow to infinity, underflow to zero) on these values provided the
\* operands of a sum are either near enough for the sum to stay below 2^30
\* or at least 2^Absorbed apart, and the operand of a square root is an
\* exact square; the vectors of the model are chosen so.

\* 2^ExpMax is the first magnitude that overflows; 2^ExpMin is the least
\* positive double.
ExpMax == 1024
ExpMin == -1074

\* A summand at least 2^Absorbed times smaller than the other leaves it
\* unchanged (53 bits of significand, 30 bits of n, 1 of rounding).
Absorbed == 84

NaN == [k |-> "nan", n |-> 0, d |-> 1, x |-> 0]
Inf(sign) == [k |-> "inf", n |-> sign, d |-> 1, x |-> 0]
Fin(n, x) == [k |-> "fin", n |-> n, d |-> 1, x |-> x]
FZero == Fin(0, 0)
FOne == Fin(1, 0)

IsZero(a) == a.k = "fin" /\ a.n = 0
Sign(a) == IF a.n < 0 THEN -1 ELSE 1

RECURSIVE Pow2(_)
Pow2(k) == IF k = 0 THEN 1 ELSE 2 * Pow2(k - 1)

\* The number of bits of the natural number m.
RECURSIVE BitLen(_)
BitLen(m) == IF m = 0 THEN 0 ELSE 1 + BitLen(m \div 2)

\* n * 2^x with n odd or zero.
RECURSIVE Canon(_, _)
Canon(n, x) ==
    IF n = 0 THEN <<0, 0>>
    ELSE IF n % 2 = 0 THEN Canon(n \div 2, x + 1)
    ELSE <<n, x>>

\* m / 2^sh rounded to the nearest integer, ties to even.
RoundShift(m, sh) ==
    IF sh > 30 THEN 0
    ELSE LET q == m \div Pow2(sh)
             r == m % Pow2(sh)
             half == Pow2(sh - 1)
         IN  IF r > half \/ (r = half /\ q % 2 = 1) THEN q + 1 ELSE q

\* The double nearest to the exact value n * 2^x.
Round(n, x) ==
    LET c == Canon(n, x)
        m == Abs(c[1])
        sign == IF c[1] < 0 THEN -1 ELSE 1
    IN  IF m = 0 THEN FZero
        ELSE IF c[2] + BitLen(m) - 1 >= ExpMax THEN Inf(sign)
        ELSE IF c[2] >= ExpMin THEN Fin(c[1], c[2])
        ELSE LET q == Canon(sign * RoundShift(m, ExpMin - c[2]), ExpMin)
             IN  Fin(q[1], q[2])

\* a * b
fmul(a, b) ==
    IF a.k = "nan" \/ b.k = "nan" THEN NaN
    ELSE IF a.k = "inf" \/ b.k = "inf"
    THEN IF IsZero(a) \/ IsZero(b) THEN NaN ELSE Inf(Sign(a) * Sign(b))
    ELSE Round(a.n * b.n, a.x + b.x)

\* a + b
fadd(a, b) ==
    IF a.k = "nan" \/ b.k = "nan" THEN NaN
    ELSE IF a.k = "inf" /\ b.k = "inf" THEN IF a.n = b.n THEN a ELSE NaN
    ELSE IF a.k = "inf" THEN a
    ELSE IF b.k = "inf" THEN b
    ELSE IF a.n = 0 THEN b
    ELSE IF b.n = 0 THEN a
    ELSE IF a.x - b.x >= Absorbed THEN a
    ELSE IF b.x - a.x >= Absorbed THEN b
    ELSE LET lo == IF a.x < b.x THEN a.x ELSE b.x
         IN  Round(a.n * Pow2(a.x - lo) + b.n * Pow2(b.x - lo), lo)

\* Math.sqrt(a)
fsqrt(a) ==
    IF a.k = "nan" THEN NaN
    ELSE IF a.k = "inf" THEN IF a.n > 0 THEN a ELSE NaN
    ELSE IF a.n < 0 THEN NaN
    ELSE IF a.n = 0 THEN FZero
    ELSE Fin(MathSqrt(a.n), a.x \div 2)

\* a / b
fdiv(a, b) ==
    IF a.k = "nan" \/ b.k = "nan" THEN NaN
    ELSE IF a.k = "inf" THEN IF b.k = "inf" THEN NaN ELSE Inf(Sign(a) * Sign(b))
    ELSE IF b.k = "inf" THEN FZero
    ELSE IF b.n = 0 THEN IF a.n = 0 THEN NaN ELSE Inf(Sign(a))
    ELSE IF a.n = 0 THEN FZero
    ELSE LET g == Gcd(Abs(a.n), Abs(b.n))
             n == Sign(a) * Sign(b) * (Abs(a.n) \div g)
             d == Abs(b.n) \div g
             x == a.x - b.x
         IN  IF x + BitLen(Abs(n)) - BitLen(d) - 1 >= ExpMax
             THEN Inf(Sign(a) * Sign(b))
             ELSE IF x + BitLen(Abs(n)) - BitLen(d) + 1 < ExpMin
             THEN FZero
             ELSE [k |-> "fin", n |-> n, d |-> d, x |-> x]

\* a > 1, for a finite
GreaterThanOne(a) ==
    /\ a.n > 0
    /\ IF a.x + BitLen(a.n) > BitLen(a.d) + 1 THEN TRUE
       ELSE IF a.x + BitLen(a.n) < BitLen(a.d) THEN FALSE
       ELSE IF a.x >= 0 THEN a.n * Pow2(a.x) > a.d
       ELSE a.n > a.d * Pow2(-a.x)

\* Math.min(1, a)
fminOne(a) ==
    IF a.k = "nan" THEN NaN
    ELSE IF a.k = "inf" THEN IF a.n > 0 THEN FOne ELSE a
    ELSE IF GreaterThanOne(a) THEN FOne ELSE a

\* Math.max(0, a)
fmaxZero(a) ==
    IF a.k = "nan" THEN NaN
    ELSE IF a.k = "inf" THEN IF a.n > 0 THEN a ELSE FZero
    ELSE IF a.n < 0 THEN FZero ELSE a

\* The accumulation of the loop from index i on: acc += a[i] * b[i]
RECURSIVE Accumulate(_, _, _, _)
Accumulate(a, b, i, acc) ==
    IF i > Len(a) THEN acc
    ELSE Accumulate(a, b, i + 1, fadd(acc, fmul(a[i], b[i])))

\* calculateSimilarity computing over the common prefix of vectors of
\* different lengths instead of throwing.
calculateSimilarityTruncating(vecA, vecB) ==
    LET m == IF Len(vecA) < Len(vecB) THEN Len(vecA) ELSE Len(vecB)
        a == SubSeq(vecA, 1, m)
        b == SubSeq(vecB, 1, m)
    IN  IF m = 0 THEN [threw |-> FALSE, value |-> FZero]
        ELSE LET dotProduct == Accumulate(a, b, 1, FZero)
                 magnitudeA == fsqrt(Accumulate(a, a, 1, FZero))
                 magnitudeB == fsqrt(Accumulate(b, b, 1, FZero))
                 similarity == fdiv(dotProduct, fmul(magnitudeA, magnitudeB))
             IN  IF IsZero(magnitudeA) \/ IsZero(magnitudeB)
                 THEN [threw |-> FALSE, value |-> FZero]
                 ELSE [threw |-> FALSE, value |-> fmaxZero(fminOne(similarity))]

\* calculateSimilarity without the returns for empty vectors and for a
\* magnitude of zero.
calculateSimilarityUnguarded(vecA, vecB) ==
    IF Len(vecA) # Len(vecB) THEN [threw |-> TRUE, value |-> FZero]
    ELSE LET dotProduct == Accumulate(vecA, vecB, 1, FZero)
             magnitudeA == fsqrt(Accumulate(vecA, vecA, 1, FZero))
             magnitudeB == fsqrt(Accumulate(vecB, vecB, 1, FZero))
             similarity == fdiv(dotProduct, fmul(magnitudeA, magnitudeB))
         IN  [threw |-> FALSE, value |-> fmaxZero(fminOne(similarity))]

\* calculateSimilarity over vectors of doubles.
calculateSimilarity64(vecA, vecB) ==
    IF Len(vecA) # Len(vecB) THEN [threw |-> TRUE, value |-> FZero]
    ELSE IF Len(vecA) = 0 THEN [threw |-> FALSE, value |-> FZero]
    ELSE LET dotProduct == Accumulate(vecA, vecB, 1, FZero)
             magnitudeA == fsqrt(Accumulate(vecA, vecA, 1, FZero))
             magnitudeB == fsqrt(Accumulate(vecB, vecB, 1, FZero))
             similarity == fdiv(dotProduct, fmul(magnitudeA, magnitudeB))
         IN  IF IsZero(magnitudeA) \/ IsZero(magnitudeB)
             THEN [threw |-> FALSE, value |-> FZero]
             ELSE [threw |-> FALSE, value |-> fmaxZero(fminOne(similarity))]

\* ------------------------------------------------------------------------
\* Inputs and configuration
\* ------------------------------------------------------------------------

\* Prompt texts "Aa", "BB", "aa" and "q".  "Aa" and "BB" have the same
\* 32-bit hash (2112).
PromptAa == <<65, 97>>
PromptBB == <<66, 66>>
Promptaa == <<97, 97>>
PromptQ == <<113>>

\* Prompts passed to save, and prompts passed to query.
SavePrompts == {PromptAa, PromptBB, Promptaa}
QueryPrompts == SavePrompts \cup {PromptQ}

\* The prompts saved and queried through each instance: B only ever saves
\* "Aa" and queries "Aa" and "BB".
SavePromptsOf(i) == IF i = "A" THEN SavePrompts ELSE {PromptAa}
QueryPromptsOf(i) == IF i = "A" THEN QueryPrompts ELSE {PromptAa, PromptBB}

\* (response, metadata) arguments of save; metadata is optional.
NoMetadata == "undefined"
Payloads == {<<"r1", NoMetadata>>, <<"r2", "meta">>}

\* The payloads saved through each instance: B only ever saves "r2".
PayloadsOf(i) == IF i = "A" THEN Payloads ELSE {<<"r2", "meta">>}

\* EmbeddingGenerator.generate on success: the feature-extraction pipeline
\* of the model is a deterministic map from text to a vector.  The default
\* model is uncased, so "Aa" and "aa" get the same vector; "BB" is
\* orthogonal to it and "q" has cosine 3/5 with "Aa" and 4/5 with "BB".
\* Another model produces vectors of another length.
generate(modelName, text) ==
    IF modelName # "all-MiniLM-L6-v2" THEN <<5>>
    ELSE IF text = PromptAa \/ text = Promptaa THEN <<5, 0>>
    ELSE IF text = PromptBB THEN <<0, 5>>
    ELSE <<3, 4>>

\* Two NanoCache instances over one key-value store: A with storagePrefix
\* "c", B with storagePrefix "cx".
Instances == {"A", "B"}

\* An instance of an earlier session of the page, configured like A but
\* with another modelName.
Legacy == "L"

\* The constructor's this.config.
Config(i) ==
    IF i = "B"
    THEN [similarityThreshold |-> Rat(0, 1), maxAge |-> 0,
          modelName |-> "all-MiniLM-L6-v2", storagePrefix |-> <<99, 120>>]
    ELSE [similarityThreshold |-> Rat(4, 5), maxAge |-> 1,
          modelName |-> IF i = Legacy THEN "other" ELSE "all-MiniLM-L6-v2",
          storagePrefix |-> <<99>>]

\* ------------------------------------------------------------------------
\* State
\* ------------------------------------------------------------------------

VARIABLES
    kv,     \* the key-value store (idb-keyval): a function from keys to entries
    now,    \* Date.now()
    last,   \* the most recent completed call and what it returned
    hist,   \* per instance: what happened since its last clear()
    model,      \* EmbeddingGenerator.model: 0 for null, else the load that set it
    loading,    \* EmbeddingGenerator.loading: 0 for null, else the load it awaits
    loads,      \* the calls of pipeline(): "inflight", "done" or "failed" each
    calls,      \* the asynchronous calls in progress: position and locals
    applied,    \* the calls whose store write was applied, in that order
    unloaded    \* unload() ran and no call was issued since

\* The state of the embedding provider and of the calls in progress.
asyncVars == <<model, loading, loads, calls, applied, unloaded>>

vars == <<kv, now, last, hist, model, loading, loads, calls, applied, unloaded>>

\* ------------------------------------------------------------------------
\* storage.ts
\* ------------------------------------------------------------------------

\* The elements of the set S of strings in ascending order.
RECURSIVE SortedSeq(_)
SortedSeq(S) ==
    IF S = {} THEN <<>>
    ELSE LET m == CHOOSE x \in S : \A y \in S \ {x} : LexLess(x, y)
         IN  <<m>> \o SortedSeq(S \ {m})

\* idb-keyval keys(): every key of the store, in key order.
keys(store) == SortedSeq(DOMAIN store)

\* set that keeps the value of a key already present.
setIfAbsent(store, key, value) ==
    [k \in DOMAIN store \cup {key} |-> IF k \in DOMAIN store THEN store[k] ELSE value]

\* idb-keyval set(key, value)
\* A store that keeps, of the stored and the written entry, the one with the
\* later timestamp.
setKeepNewest(store, key, value) ==
    [k \in DOMAIN store \cup {key} |->
        IF k = key /\ (key \notin DOMAIN store \/ store[key].timestamp <= value.timestamp)
        THEN value ELSE store[k]]

set(store, key, value) ==
    [k \in DOMAIN store \cup {key} |-> IF k = key THEN value ELSE store[k]]

\* idb-keyval del(key); deleting an absent key changes nothing.
del(store, key) == [k \in DOMAIN store \ {key} |-> store[k]]

\* The filter of getAll and clear: the keys that belong to the namespace.
IsCacheKey(key, prefix) == StartsWith(key, prefix)

\* allKeys.filter(...), in the order of keys().
cacheKeys(prefix, store) ==
    SelectSeq(keys(store), LAMBDA key : IsCacheKey(key, prefix))

\* CacheStorage.getAll
getAll(prefix, store) ==
    LET ck == cacheKeys(prefix, store)
    IN  [j \in 1..Len(ck) |-> store[ck[j]]]

\* IsExpired with the operands of the subtraction swapped.
IsExpiredSwapped(t, timestamp, maxAge) == timestamp - t > maxAge

\* The test of removeExpired: now - entry.timestamp > maxAge
IsExpired(t, timestamp, maxAge) == t - timestamp > maxAge

\* The key removeExpired deletes for an entry it found expired.
ExpiredKey(prefix, entry) == getKey(prefix, storageHashPrompt(entry.prompt))

\* The loop of removeExpired over entries[j..]: budget is the number of
\* del calls that succeed before the store throws (-1: it never throws).
RECURSIVE removeLoop(_, _, _, _, _, _, _)
removeLoop(entries, j, store, prefix, maxAge, t, budget) ==
    IF j > Len(entries) THEN [kv |-> store, threw |-> FALSE]
    ELSE IF ~IsExpired(t, entries[j].timestamp, maxAge)
    THEN removeLoop(entries, j + 1, store, prefix, maxAge, t, budget)
    ELSE IF budget = 0 THEN [kv |-> store, threw |-> TRUE]
    ELSE removeLoop(entries, j + 1, del(store, ExpiredKey(prefix, entries[j])),
                    prefix, maxAge, t,
                    IF budget < 0 THEN budget ELSE budget - 1)

\* CacheStorage.removeExpired
removeExpired(prefix, maxAge, t, store, budget) ==
    removeLoop(getAll(prefix, store), 1, store, prefix, maxAge, t, budget)

\* The number of entries removeExpired finds expired.
ExpiredCount(prefix, maxAge, t, store) ==
    LET entries == getAll(prefix, store)
    IN  Cardinality({j \in 1..Len(entries) : IsExpired(t, entries[j].timestamp, maxAge)})

\* The loop of CacheStorage.clear over cacheKeys[j..], with the same budget.
RECURSIVE clearLoop(_, _, _, _)
clearLoop(ck, j, store, budget) ==
    IF j > Len(ck) THEN [kv |-> store, threw |-> FALSE]
    ELSE IF budget = 0 THEN [kv |-> store, threw |-> TRUE]
    ELSE clearLoop(ck, j + 1, del(store, ck[j]),
                   IF budget < 0 THEN budget ELSE budget - 1)

\* storageClear leaving the loop after its first key.
storageClearFirstOnly(prefix, store, budget) ==
    LET ck == cacheKeys(prefix, store)
    IN  clearLoop(IF ck = <<>> THEN ck ELSE <<ck[1]>>, 1, store, budget)

\* CacheStorage.clear
storageClear(prefix, store, budget) ==
    clearLoop(cacheKeys(prefix, store), 1, store, budget)

\* No value: null or an absent timestamp.
Null == {}

\* The minimum and the maximum of a non-empty set of numbers.
MathMin(S) == CHOOSE x \in S : \A y \in S : x <= y
MathMax(S) == CHOOSE x \in S : \A y \in S : x >= y

\* CacheStorage.getStats
getStats(prefix, store) ==
    LET entries == getAll(prefix, store)
        timestamps == {entries[j].timestamp : j \in 1..Len(entries)}
    IN  IF Len(entries) = 0
        THEN [totalEntries |-> 0, oldestEntry |-> Null, newestEntry |-> Null]
        ELSE [totalEntries |-> Len(entries),
              oldestEntry |-> {MathMin(timestamps)},
              newestEntry |-> {MathMax(timestamps)}]

\* ------------------------------------------------------------------------
\* cache.ts: query
\* ------------------------------------------------------------------------

\* IsBetter with >= for >: the last maximum wins.
IsBetterOrEqual(similarity, bestSimilarity) == RLeq(bestSimilarity, similarity)

\* if (similarity > bestSimilarity)
IsBetter(similarity, bestSimilarity) == RLess(bestSimilarity, similarity)

\* The scan of query over entries[j..]; bestMatch is the index of the best
\* entry so far, 0 for null.
RECURSIVE scanLoop(_, _, _, _)
scanLoop(queryEmbedding, entries, j, best) ==
    IF j > Len(entries) THEN best
    ELSE LET similarity == calculateSimilarity(queryEmbedding, entries[j].embedding)
         IN  IF similarity.threw THEN [best EXCEPT !.threw = TRUE]
             ELSE scanLoop(queryEmbedding, entries, j + 1,
                      IF IsBetter(similarity.value, best.bestSimilarity)
                      THEN [bestMatch |-> j, bestSimilarity |-> similarity.value,
                            threw |-> FALSE]
                      ELSE best)

\* let bestMatch = null; let bestSimilarity = 0; for (const entry of entries)
scan(queryEmbedding, entries) ==
    scanLoop(queryEmbedding, entries, 1,
             [bestMatch |-> 0, bestSimilarity |-> RZero, threw |-> FALSE])

\* IsHit without the comparison with the threshold.
IsHitNoThreshold(bestMatch, bestSimilarity, threshold) == bestMatch # 0

\* if (bestMatch && bestSimilarity >= this.config.similarityThreshold)
IsHit(bestMatch, bestSimilarity, threshold) ==
    bestMatch # 0 /\ RLeq(threshold, bestSimilarity)

\* decide with the Miss of the empty cache for every Miss.
decideBareMiss(entries, best, threshold) ==
    IF IsHit(best.bestMatch, best.bestSimilarity, threshold)
    THEN [hit |-> TRUE,
          response |-> entries[best.bestMatch].response,
          similarity |-> best.bestSimilarity,
          entry |-> entries[best.bestMatch]]
    ELSE [hit |-> FALSE]

\* decide returning, on a Hit, the first scanned entry instead of the best.
decideFirstEntry(entries, best, threshold) ==
    IF IsHit(best.bestMatch, best.bestSimilarity, threshold)
    THEN [hit |-> TRUE,
          response |-> entries[1].response,
          similarity |-> best.bestSimilarity,
          entry |-> entries[1]]
    ELSE [hit |-> FALSE, similarity |-> best.bestSimilarity]

\* The two return statements after the scan.
decide(entries, best, threshold) ==
    IF IsHit(best.bestMatch, best.bestSimilarity, threshold)
    THEN [hit |-> TRUE,
          response |-> entries[best.bestMatch].response,
          similarity |-> best.bestSimilarity,
          entry |-> entries[best.bestMatch]]
    ELSE [hit |-> FALSE, similarity |-> best.bestSimilarity]

\* queryCatch rethrowing the error, as the catch block of save does.
queryCatchRethrow(error) ==
    [outcome |-> "rejected", threw |-> error, result |-> [hit |-> FALSE]]

\* The catch block of query: log and return { hit: false }.
queryCatch(error) ==
    [outcome |-> "resolved", threw |-> error, result |-> [hit |-> FALSE]]

\* A value returned from the try block of query.
queryReturn(result) ==
    [outcome |-> "resolved", threw |-> "none", result |-> result]

\* queryAfterSweep without the early return for an empty entry set.
queryAfterSweepNoEmptyCheck(i, prompt, store, fail) ==
    LET cfg == Config(i)
        entries == getAll(cfg.storagePrefix, store)
        best == scan(generate(cfg.modelName, prompt), entries)
    IN  IF fail = "embed" THEN queryCatch("EmbeddingError")
        ELSE IF fail = "fetch" THEN queryCatch("StorageError")
        ELSE IF best.threw THEN queryCatch("InvalidInput")
        ELSE queryReturn(decide(entries, best, cfg.similarityThreshold))

\* The statements of query after the sweep: embedding, getAll, scan and
\* decision.  fail names the collaborator call that throws, if any.
queryAfterSweep(i, prompt, store, fail) ==
    LET cfg == Config(i)
        entries == getAll(cfg.storagePrefix, store)
        best == scan(generate(cfg.modelName, prompt), entries)
    IN  IF fail = "embed" THEN queryCatch("EmbeddingError")
        ELSE IF fail = "fetch" THEN queryCatch("StorageError")
        ELSE IF Len(entries) = 0 THEN queryReturn([hit |-> FALSE])
        ELSE IF best.threw THEN queryCatch("InvalidInput")
        ELSE queryReturn(decide(entries, best, cfg.similarityThreshold))

\* A query that sweeps whatever maxAge is.
querySweepAlways(i, store, t, fail) ==
    LET cfg == Config(i)
    IN  IF fail[1] = "sweepRead" THEN [kv |-> store, threw |-> TRUE]
        ELSE removeExpired(cfg.storagePrefix, cfg.maxAge, t, store,
                           IF fail[1] = "sweepDel" THEN fail[2] - 1 ELSE -1)

\* The sweep of query: if (this.config.maxAge > 0) await removeExpired(maxAge)
querySweep(i, store, t, fail) ==
    LET cfg == Config(i)
    IN  IF cfg.maxAge > 0
        THEN IF fail[1] = "sweepRead" THEN [kv |-> store, threw |-> TRUE]
             ELSE removeExpired(cfg.storagePrefix, cfg.maxAge, t, store,
                                IF fail[1] = "sweepDel" THEN fail[2] - 1 ELSE -1)
        ELSE [kv |-> store, threw |-> FALSE]

\* NanoCache.query as a whole: the store it leaves and what it returns.
query(i, prompt, store, t, fail) ==
    LET sweep == querySweep(i, store, t, fail)
        r == IF sweep.threw THEN queryCatch("StorageError")
             ELSE queryAfterSweep(i, prompt, sweep.kv, fail[1])
    IN  [kv |-> sweep.kv, outcome |-> r.outcome, threw |-> r.threw,
         result |-> r.result]

\* The key of the entry a Hit returned (the first key of the namespace scan
\* holding that entry), <<>> when the result carries no entry.
MatchedKey(i, store, result) ==
    IF ~result.hit THEN <<>>
    ELSE LET ck == cacheKeys(Config(i).storagePrefix, store)
         IN  ck[CHOOSE j \in 1..Len(ck) :
                    /\ store[ck[j]] = result.entry
                    /\ \A m \in 1..(j - 1) : store[ck[m]] # result.entry]

\* ------------------------------------------------------------------------
\* cache.ts: save, clear, getStats
\* ------------------------------------------------------------------------

\* const entry = { prompt, embedding, response, timestamp: Date.now(), metadata }
newEntry(prompt, embedding, response, metadata, t) ==
    [prompt |-> prompt, embedding |-> embedding, response |-> response,
     timestamp |-> t, metadata |-> metadata]

\* saveCatch returning normally, as the catch block of query does.
saveCatchSwallow(error) == [outcome |-> "resolved", threw |-> error]

\* The catch block of save: log and rethrow.
saveCatch(error) == [outcome |-> "rejected", threw |-> error]

\* The store is full and the key is new: set() fails (quota exceeded).
QuotaExceeded(store, key) ==
    key \notin DOMAIN store /\ Cardinality(DOMAIN store) >= MaxKeys

\* save storing the entry before the embedding is generated: a failing
\* generate leaves an entry without embedding behind.
saveEntryFirst(i, prompt, response, metadata, store, t, fail) ==
    LET embedding == generate(Config(i).modelName, prompt)
        id == hashPrompt(prompt)
        key == getKey(Config(i).storagePrefix, id)
        r == IF fail = "store" \/ QuotaExceeded(store, key)
             THEN saveCatch("StorageError")
             ELSE IF fail = "embed" THEN saveCatch("EmbeddingError")
             ELSE [outcome |-> "resolved", threw |-> "none"]
    IN  [kv |-> IF r.threw = "StorageError" THEN store
                ELSE set(store, key,
                         newEntry(prompt,
                                  IF fail = "embed" THEN <<>> ELSE embedding,
                                  response, metadata, t)),
         outcome |-> r.outcome, threw |-> r.threw]

\* NanoCache.save as a whole.
save(i, prompt, response, metadata, store, t, fail) ==
    LET embedding == generate(Config(i).modelName, prompt)
        id == hashPrompt(prompt)
        key == getKey(Config(i).storagePrefix, id)
        r == IF fail = "embed" THEN saveCatch("EmbeddingError")
             ELSE IF fail = "store" \/ QuotaExceeded(store, key)
             THEN saveCatch("StorageError")
             ELSE [outcome |-> "resolved", threw |-> "none"]
    IN  [kv |-> IF r.outcome = "resolved"
                THEN set(store, key, newEntry(prompt, embedding, response, metadata, t))
                ELSE store,
         outcome |-> r.outcome, threw |-> r.threw]

\* NanoCache.clear as a whole: it has no catch block.
clear(i, store, budget) ==
    LET c == storageClear(Config(i).storagePrefix, store, budget)
    IN  [kv |-> c.kv,
         outcome |-> IF c.threw THEN "rejected" ELSE "resolved",
         threw |-> IF c.threw THEN "StorageError" ELSE "none"]

\* ------------------------------------------------------------------------
\* The calls
\* ------------------------------------------------------------------------

\* The collaborator call of a query that throws: none, the getAll of the
\* sweep, the n-th del of the sweep, the embedding, or the getAll of query.
QueryFailures ==
    {<<"none", 0>>, <<"sweepRead", 0>>, <<"embed", 0>>, <<"fetch", 0>>}
        \cup {<<"sweepDel", n>> : n \in 1..MaxKeys}

\* The arguments of the query calls through instance i and the collaborator
\* call that throws in each.  The catch block of query reads neither the
\* prompt nor the store, so one prompt stands for all in the calls a
\* collaborator fails.
QueryInputs(i) ==
    {<<prompt, <<"none", 0>>>> : prompt \in QueryPromptsOf(i)}
        \cup {<<PromptQ, fail>> : fail \in QueryFailures \ {<<"none", 0>>}}

\* The arguments of the save calls through instance i and the collaborator
\* call that throws in each.  A save whose collaborator fails writes
\* nothing, so one prompt and one payload stand for all in those calls (a
\* write that exceeds the quota fails for any prompt).
SaveInputs(i) ==
    {<<prompt, payload, "none">> :
        prompt \in SavePromptsOf(i), payload \in PayloadsOf(i)}
        \cup {<<PromptAa, <<"r2", "meta">>, fail>> : fail \in {"embed", "store"}}

\* The failure happens on the path this query takes.
QueryFailureOccurs(i, store, t, fail) ==
    LET cfg == Config(i)
    IN  /\ fail[1] \in {"sweepRead", "sweepDel"} => cfg.maxAge > 0
        /\ fail[1] = "sweepDel" =>
               ExpiredCount(cfg.storagePrefix, cfg.maxAge, t, store) >= fail[2]

\* The key under which instance i stores the prompt.
KeyOf(i, prompt) == getKey(Config(i).storagePrefix, hashPrompt(prompt))

\* The prompts of the entries getAll returns to instance i.
PromptsSeen(i, store) ==
    LET entries == getAll(Config(i).storagePrefix, store)
    IN  {entries[j].prompt : j \in 1..Len(entries)}

\* hist after a call by instance i: op is the call, resolved its outcome.
\*   cleared: clear() of the instance resolved and no save was called since
\*   had:     the prompts the instance saw stored when that clear() was called
\*   run:     clear() of the instance resolved and only its own save calls,
\*            getStats calls and the passing of time followed
\*   saved:   the prompts of the resolved saves of the run
HistAfter(i, op, prompt, resolved) ==
    [j \in Instances |->
        IF op = "clear" /\ j = i /\ resolved
        THEN [cleared |-> TRUE, had |-> PromptsSeen(i, kv), run |-> TRUE, saved |-> {}]
        ELSE IF op = "getStats" THEN hist[j]
        ELSE IF op = "save" /\ j = i
        THEN [cleared |-> FALSE, had |-> {}, run |-> hist[j].run,
              saved |-> IF hist[j].run /\ resolved
                        THEN hist[j].saved \cup {prompt} ELSE hist[j].saved]
        ELSE [cleared |-> IF op = "save" THEN FALSE ELSE hist[j].cleared,
              had |-> IF op = "save" THEN {} ELSE hist[j].had,
              run |-> FALSE, saved |-> {}]]

\* last after query: the call, its result, and
\*   failed:  the step of the query that threw: "sweep", "embed", "fetch",
\*            "scan", or "none"
\* and for a query no step of which threw
\*   removed: the number of keys the sweep deleted
\*   matched: the key of the entry a Hit returned
\*   follows: <<response, resaved>> when the call before this query was a
\*            resolved save of the same prompt through the same instance
Query(i, prompt, fail) ==
    /\ QueryFailureOccurs(i, kv, now, fail)
    /\ \E q \in {query(i, prompt, kv, now, fail)} :
           /\ kv' = q.kv
           /\ last' = IF q.threw = "none"
                      THEN [op |-> "query", inst |-> i, prompt |-> prompt,
                            outcome |-> q.outcome, threw |-> q.threw,
                            failed |-> "none",
                            result |-> q.result,
                            removed |-> Cardinality(DOMAIN kv \ DOMAIN q.kv),
                            matched |-> MatchedKey(i, q.kv, q.result),
                            follows |-> IF /\ last.op = "save"
                                           /\ last.outcome = "resolved"
                                           /\ last.inst = i
                                           /\ last.prompt = prompt
                                        THEN <<last.response, last.resaved>>
                                        ELSE <<>>]
                      ELSE [op |-> "query", inst |-> i,
                            outcome |-> q.outcome, threw |-> q.threw,
                            failed |-> IF q.threw = "InvalidInput" THEN "scan"
                                       ELSE IF fail[1] \in {"sweepRead", "sweepDel"}
                                       THEN "sweep"
                                       ELSE fail[1],
                            result |-> q.result]
    /\ hist' = HistAfter(i, "query", prompt, TRUE)
    /\ UNCHANGED <<now, asyncVars>>

\* last after save: the call, its outcome, and
\*   failed:  the collaborator call that threw: "embed", "store" or "none"
\* and for a resolved save
\*   at:      Date.now() of the call
\*   resaved: the key already held an entry with the byte-identical prompt
Save(i, prompt, payload, fail) ==
    /\ \E s \in {save(i, prompt, payload[1], payload[2], kv, now, fail)} :
       \E failed \in {IF fail = "embed" THEN "embed"
                      ELSE IF fail = "store" \/ QuotaExceeded(kv, KeyOf(i, prompt))
                      THEN "store" ELSE "none"} :
           /\ kv' = s.kv
           /\ last' = IF s.outcome = "resolved"
                       THEN [op |-> "save", inst |-> i, prompt |-> prompt,
                             response |-> payload[1], metadata |-> payload[2],
                             outcome |-> s.outcome, threw |-> s.threw,
                             failed |-> failed, at |-> now,
                             resaved |-> /\ KeyOf(i, prompt) \in DOMAIN kv
                                         /\ kv[KeyOf(i, prompt)].prompt = prompt]
                       ELSE [op |-> "save", inst |-> i, prompt |-> prompt,
                             outcome |-> s.outcome, threw |-> s.threw,
                             failed |-> failed]
           /\ hist' = HistAfter(i, "save", prompt, s.outcome = "resolved")
    /\ UNCHANGED <<now, asyncVars>>

\* budget: the number of del calls that succeed before the store throws
\* (0 also stands for keys() throwing), -1 when it does not throw.
Clear(i, budget) ==
    /\ budget > 0 => Len(cacheKeys(Config(i).storagePrefix, kv)) > budget
    /\ \E c \in {clear(i, kv, budget)} :
           /\ kv' = c.kv
           /\ last' = [op |-> "clear", inst |-> i,
                       outcome |-> c.outcome, threw |-> c.threw]
           /\ hist' = HistAfter(i, "clear", <<>>, c.outcome = "resolved")
    /\ UNCHANGED <<now, asyncVars>>

\* NanoCache.getStats: return await this.storage.getStats(), no catch block.
\* A getStats that runs the expiration sweep of query first.
GetStatsSweeping(i, fail) ==
    /\ \E s \in {querySweep(i, kv, now, <<"none", 0>>)} :
           /\ kv' = s.kv
           /\ last' = IF fail = "fetch"
                      THEN [op |-> "getStats", inst |-> i, outcome |-> "rejected",
                            threw |-> "StorageError"]
                      ELSE [op |-> "getStats", inst |-> i, outcome |-> "resolved",
                            threw |-> "none",
                            result |-> getStats(Config(i).storagePrefix, s.kv)]
    /\ hist' = HistAfter(i, "getStats", <<>>, fail = "none")
    /\ UNCHANGED <<now, asyncVars>>

GetStats(i, fail) ==
    /\ last' = IF fail = "fetch"
               THEN [op |-> "getStats", inst |-> i, outcome |-> "rejected",
                     threw |-> "StorageError"]
               ELSE [op |-> "getStats", inst |-> i, outcome |-> "resolved",
                     threw |-> "none",
                     result |-> getStats(Config(i).storagePrefix, kv)]
    /\ hist' = HistAfter(i, "getStats", <<>>, fail = "none")
    /\ UNCHANGED <<kv, now, asyncVars>>

\* Time passes.
Tick ==
    /\ now < MaxTime
    /\ now' = now + 1
    /\ UNCHANGED <<kv, last, hist, asyncVars>>

\* The store a page finds: empty, or holding the entry for "q" that the
\* earlier session saved at time 0.
InitialStores ==
    LET empty == [k \in {} |-> {}]
    IN  {empty, save(Legacy, PromptQ, "r1", NoMetadata, empty, 0, "none").kv}

\* The asynchronous calls of the interleaved runs: two save calls with the
\* same prompt and a preloadModel call, all through instance A.
AsyncCalls == {"save1", "save2", "preload"}

\* The arguments of an asynchronous call.
ArgsOf(c) ==
    IF c = "save1"
    THEN [op |-> "save", prompt |-> PromptAa, response |-> "r1", metadata |-> NoMetadata]
    ELSE IF c = "save2"
    THEN [op |-> "save", prompt |-> PromptAa, response |-> "r2", metadata |-> "meta"]
    ELSE IF c = "query1"
    THEN [op |-> "query", prompt |-> PromptAa, response |-> "", metadata |-> NoMetadata]
    ELSE IF c = "clear1"
    THEN [op |-> "clear", prompt |-> <<>>, response |-> "", metadata |-> NoMetadata]
    ELSE [op |-> "preloadModel", prompt |-> <<119>>, response |-> "", metadata |-> NoMetadata]

\* A new EmbeddingGenerator (model = null, loading = null) and no call in
\* progress.
AsyncInit ==
    /\ model = 0
    /\ loading = 0
    /\ loads = <<>>
    /\ calls = [c \in AsyncCalls |-> [pc |-> "idle", on |-> 0, entry |-> Null]]
    /\ applied = <<>>
    /\ unloaded = FALSE

Init ==
    /\ kv \in InitialStores
    /\ now = 0
    /\ last = [op |-> "init"]
    /\ hist = [i \in Instances |->
                  [cleared |-> FALSE, had |-> {}, run |-> FALSE, saved |-> {}]]
    /\ AsyncInit

Next ==
    \/ \E i \in Instances : \E in \in QueryInputs(i) : Query(i, in[1], in[2])
    \/ \E i \in Instances : \E in \in SaveInputs(i) : Save(i, in[1], in[2], in[3])
    \/ \E i \in Instances, budget \in -1..(MaxKeys - 1) : Clear(i, budget)
    \/ \E i \in Instances, fail \in {"none", "fetch"} : GetStats(i, fail)
    \/ Tick

Spec == Init /\ [][Next]_vars

\* ------------------------------------------------------------------------
\* embeddings.ts and the asynchronous steps of save and preloadModel
\* ------------------------------------------------------------------------

\* this.loading = (async () => { ... await pipeline(...) ... })()
\* A load started while another is recorded in loading replaces it.
StartLoad(c) ==
    /\ loads' = Append(loads, "inflight")
    /\ loading' = Len(loads) + 1
    /\ calls' = [calls EXCEPT ![c] = [@ EXCEPT !.pc = "awaitLoad", !.on = Len(loads) + 1]]

\* EmbeddingGenerator.initialize up to its first await, in call c: it
\* returns if the model is set, awaits the load in progress if there is one,
\* and starts a load otherwise.
initialize(c) ==
    IF model # 0
    THEN /\ calls' = [calls EXCEPT ![c] = [@ EXCEPT !.pc = "initialized"]]
         /\ UNCHANGED <<loads, loading>>
    ELSE IF loading # 0
    THEN /\ calls' = [calls EXCEPT ![c] = [@ EXCEPT !.pc = "awaitLoad", !.on = loading]]
         /\ UNCHANGED <<loads, loading>>
    ELSE StartLoad(c)

\* A call is issued and runs to its first await: save and preloadModel call
\* generate, generate calls initialize, and initialize returns if the model
\* is set, awaits the load in progress if there is one, and starts a load
\* otherwise.
Start(c) ==
    /\ calls[c].pc = "idle"
    /\ ArgsOf(c).op # "query"
    /\ initialize(c)
    /\ unloaded' = FALSE
    /\ UNCHANGED <<kv, now, last, hist, model, applied>>

\* pipeline() of load n resolves: this.model = await pipeline(...)
LoadResolves(n) ==
    /\ loads[n] = "inflight"
    /\ model' = n
    /\ loads' = [loads EXCEPT ![n] = "done"]
    /\ UNCHANGED <<kv, now, last, hist, loading, calls, applied, unloaded>>

\* LoadRejects with a catch block that throws without resetting
\* this.loading.
LoadRejectsKeepsGuard(n) ==
    /\ loads[n] = "inflight"
    /\ loads' = [loads EXCEPT ![n] = "failed"]
    /\ UNCHANGED <<kv, now, last, hist, model, loading, calls, applied, unloaded>>

\* pipeline() of load n rejects: the catch block sets this.loading = null
\* and throws.
LoadRejects(n) ==
    /\ loads[n] = "inflight"
    /\ loading' = 0
    /\ loads' = [loads EXCEPT ![n] = "failed"]
    /\ UNCHANGED <<kv, now, last, hist, model, calls, applied, unloaded>>

\* An await this.loading that returns only from a load that succeeded.
AwaitReturnsOnSuccess(c) ==
    /\ calls[c].pc = "awaitLoad"
    /\ loads[calls[c].on] = "done"
    /\ calls' = [calls EXCEPT ![c] = [@ EXCEPT !.pc = "initialized"]]
    /\ UNCHANGED <<kv, now, last, hist, model, loading, loads, applied, unloaded>>

\* await this.loading returns to a call: initialize returns, or throws the
\* error of the load, which generate, save and preloadModel pass on.
AwaitReturns(c) ==
    /\ calls[c].pc = "awaitLoad"
    /\ loads[calls[c].on] # "inflight"
    /\ calls' = [calls EXCEPT ![c] =
                    [@ EXCEPT !.pc = IF loads[calls[c].on] = "done"
                                     THEN "initialized" ELSE "rejected"]]
    /\ UNCHANGED <<kv, now, last, hist, model, loading, loads, applied, unloaded>>

\* generate after await this.initialize(): if (!this.model) throw, else
\* await this.model(text, ...).
Embed(c) ==
    /\ calls[c].pc = "initialized"
    /\ calls' = [calls EXCEPT ![c] =
                    [@ EXCEPT !.pc = IF model = 0 THEN "rejected" ELSE "embedding"]]
    /\ UNCHANGED <<kv, now, last, hist, model, loading, loads, applied, unloaded>>

\* The embedding is returned: preloadModel resolves; save builds its entry
\* with Date.now() and calls this.storage.save(id, entry); query calls
\* this.storage.getAll().
Embedded(c) ==
    /\ calls[c].pc = "embedding"
    /\ calls' = [calls EXCEPT ![c] =
                    IF ArgsOf(c).op = "save"
                    THEN [@ EXCEPT !.pc = "writing",
                                   !.entry = newEntry(ArgsOf(c).prompt,
                                       generate(Config("A").modelName, ArgsOf(c).prompt),
                                       ArgsOf(c).response, ArgsOf(c).metadata, now)]
                    ELSE IF ArgsOf(c).op = "query"
                    THEN [@ EXCEPT !.pc = "fetching"]
                    ELSE [@ EXCEPT !.pc = "resolved"]]
    /\ UNCHANGED <<kv, now, last, hist, model, loading, loads, applied, unloaded>>

\* The store applies the set() of a save, and the save resolves.
Written(c) ==
    /\ calls[c].pc = "writing"
    /\ kv' = set(kv, KeyOf("A", ArgsOf(c).prompt), calls[c].entry)
    /\ applied' = Append(applied, c)
    /\ calls' = [calls EXCEPT ![c] = [@ EXCEPT !.pc = "resolved"]]
    /\ UNCHANGED <<now, last, hist, model, loading, loads, unloaded>>

\* EmbeddingGenerator.unload: this.model = null; this.loading = null
Unload ==
    /\ model' = 0
    /\ loading' = 0
    /\ unloaded' = TRUE
    /\ UNCHANGED <<kv, now, last, hist, loads, calls, applied>>

InitAsync ==
    /\ kv = [k \in {} |-> {}]
    /\ now = 0
    /\ last = [op |-> "init"]
    /\ hist = [i \in Instances |->
                  [cleared |-> FALSE, had |-> {}, run |-> FALSE, saved |-> {}]]
    /\ AsyncInit

NextAsync ==
    \/ \E c \in AsyncCalls : Start(c)
    \/ \E n \in 1..Len(loads) : LoadResolves(n)
    \/ \E n \in 1..Len(loads) : LoadRejects(n)
    \/ \E c \in AsyncCalls : AwaitReturns(c)
    \/ \E c \in AsyncCalls : Embed(c)
    \/ \E c \in AsyncCalls : Embedded(c)
    \/ \E c \in AsyncCalls : Written(c)
    \/ Unload
    \/ Tick

SpecAsync == InitAsync /\ [][NextAsync]_vars

\* ------------------------------------------------------------------------
\* The asynchronous steps of query, interleaved with save, clear and unload
\* ------------------------------------------------------------------------

\* A query call and a re-save of the stored prompt, through instance A.
QueryCalls == {"query1", "save2"}

\* A query is issued: with maxAge > 0 it calls removeExpired, which reads
\* Date.now() and calls getAll; otherwise it calls generate.
QueryStart(c) ==
    /\ calls[c].pc = "idle"
    /\ ArgsOf(c).op = "query"
    /\ IF Config("A").maxAge > 0
       THEN /\ calls' = [calls EXCEPT ![c] = [@ EXCEPT !.pc = "sweepRead", !.t0 = now]]
            /\ UNCHANGED <<loads, loading, unloaded>>
       ELSE /\ initialize(c)
            /\ unloaded' = FALSE
    /\ UNCHANGED <<kv, now, last, hist, model, applied>>

\* The entries of a getAll result that the loop of removeExpired deletes.
RECURSIVE expiredOf(_, _, _)
expiredOf(entries, t, maxAge) ==
    IF entries = <<>> THEN <<>>
    ELSE IF IsExpired(t, Head(entries).timestamp, maxAge)
    THEN <<Head(entries)>> \o expiredOf(Tail(entries), t, maxAge)
    ELSE expiredOf(Tail(entries), t, maxAge)

\* getAll of removeExpired returns (ok) or throws.
SweepRead(c, ok) ==
    /\ calls[c].pc = "sweepRead"
    /\ calls' = [calls EXCEPT ![c] =
                    IF ok
                    THEN [@ EXCEPT !.pc = "sweepDel",
                                   !.todo = expiredOf(getAll(Config("A").storagePrefix, kv),
                                                      calls[c].t0, Config("A").maxAge)]
                    ELSE [@ EXCEPT !.pc = "rejected"]]
    /\ UNCHANGED <<kv, now, last, hist, model, loading, loads, applied, unloaded>>

\* One await this.delete(id) of the loop of removeExpired is applied (ok)
\* or throws.
SweepDel(c, ok) ==
    /\ calls[c].pc = "sweepDel"
    /\ calls[c].todo # <<>>
    /\ IF ok
       THEN /\ kv' = del(kv, ExpiredKey(Config("A").storagePrefix, Head(calls[c].todo)))
            /\ calls' = [calls EXCEPT ![c] = [@ EXCEPT !.todo = Tail(calls[c].todo)]]
       ELSE /\ calls' = [calls EXCEPT ![c] = [@ EXCEPT !.pc = "rejected", !.todo = <<>>]]
            /\ UNCHANGED kv
    /\ UNCHANGED <<now, last, hist, model, loading, loads, applied, unloaded>>

\* removeExpired returns and query calls this.embeddings.generate(prompt).
SweepDone(c) ==
    /\ calls[c].pc = "sweepDel"
    /\ calls[c].todo = <<>>
    /\ initialize(c)
    /\ unloaded' = FALSE
    /\ UNCHANGED <<kv, now, last, hist, model, applied>>

\* getAll of query returns (ok) or throws; query scans, decides and returns.
Fetch(c, ok) ==
    /\ calls[c].pc = "fetching"
    /\ calls' = [calls EXCEPT ![c] =
                    [@ EXCEPT !.pc = "resolved",
                              !.result = queryAfterSweep("A", ArgsOf(c).prompt, kv,
                                             IF ok THEN "none" ELSE "fetch").result]]
    /\ UNCHANGED <<kv, now, last, hist, model, loading, loads, applied, unloaded>>

\* The catch block of query: an awaited call threw, query returns
\* {hit: false}.
Catch(c) ==
    /\ calls[c].pc = "rejected"
    /\ ArgsOf(c).op = "query"
    /\ calls' = [calls EXCEPT ![c] =
                    [@ EXCEPT !.pc = "resolved",
                              !.result = queryCatch("error").result]]
    /\ UNCHANGED <<kv, now, last, hist, model, loading, loads, applied, unloaded>>

\* The value of a local of a call that is not assigned yet.
Pending == [pending |-> TRUE]

\* The store holds the entry of a save("Aa", "r1") made at time 0.
InitQuery ==
    /\ kv = save("A", PromptAa, "r1", NoMetadata, [k \in {} |-> {}], 0, "none").kv
    /\ now = 0
    /\ last = [op |-> "init"]
    /\ hist = [i \in Instances |->
                  [cleared |-> FALSE, had |-> {}, run |-> FALSE, saved |-> {}]]
    /\ model = 0
    /\ loading = 0
    /\ loads = <<>>
    /\ calls = [c \in QueryCalls |->
                   [pc |-> "idle", on |-> 0, entry |-> Pending, t0 |-> 0,
                    todo |-> <<>>, result |-> Pending]]
    /\ applied = <<>>
    /\ unloaded = FALSE

\* The steps of a call that follow the settling of a call it awaits.
Settle(c) ==
    \/ \E ok \in BOOLEAN : SweepRead(c, ok)
    \/ \E ok \in BOOLEAN : SweepDel(c, ok)
    \/ SweepDone(c)
    \/ AwaitReturns(c)
    \/ Embed(c)
    \/ Embedded(c)
    \/ \E ok \in BOOLEAN : Fetch(c, ok)
    \/ Catch(c)
    \/ Written(c)

\* pipeline() of load n settles.
LoadSettles(n) ==
    /\ n \in DOMAIN loads
    /\ (LoadResolves(n) \/ LoadRejects(n))

NextQuery ==
    \/ \E c \in QueryCalls : QueryStart(c)
    \/ \E c \in QueryCalls : Start(c)
    \/ \E c \in QueryCalls : Settle(c)
    \/ \E n \in 1..Cardinality(QueryCalls) : LoadSettles(n)
    \/ Clear("A", -1)
    \/ Unload
    \/ Tick

SpecQuery == InitQuery /\ [][NextQuery]_vars

\* Every call that a query or a save awaits settles: the steps that follow
\* a settled call are taken, and every load settles.  Issuing a call,
\* clear, unload and the clock are not forced.
FairQuery ==
    /\ \A c \in QueryCalls : WF_vars(Settle(c))
    /\ \A n \in 1..Cardinality(QueryCalls) : WF_vars(LoadSettles(n))

SpecQueryFair == SpecQuery /\ FairQuery

\* ------------------------------------------------------------------------
\* clear interleaved with a save and a query
\* ------------------------------------------------------------------------

\* A clear call, a re-save of a stored prompt and a query, through
\* instance A.
ClearCalls == {"clear1", "save2", "query1"}

\* The entries stored under the keys getAll returns to instance i.
EntriesOf(i, store) ==
    {store[k] : k \in {key \in DOMAIN store :
                          IsCacheKey(key, Config(i).storagePrefix)}}

\* clear() is invoked: NanoCache.clear calls CacheStorage.clear, which
\* calls keys().  had: the entries stored at the invocation.
ClearStart(c) ==
    /\ calls[c].pc = "idle"
    /\ ArgsOf(c).op = "clear"
    /\ calls' = [calls EXCEPT ![c] =
                    [@ EXCEPT !.pc = "listing", !.t0 = now,
                              !.had = EntriesOf("A", kv)]]
    /\ UNCHANGED <<kv, now, last, hist, model, loading, loads, applied, unloaded>>

\* ClearList keeping only the first of the listed keys.
ClearListFirstOnly(c, ok) ==
    /\ calls[c].pc = "listing"
    /\ calls' = [calls EXCEPT ![c] =
                    IF ok
                    THEN [@ EXCEPT !.pc = "deleting",
                                   !.todo = SubSeq(cacheKeys(Config("A").storagePrefix, kv), 1, 1)]
                    ELSE [@ EXCEPT !.pc = "rejected"]]
    /\ UNCHANGED <<kv, now, last, hist, model, loading, loads, applied, unloaded>>

\* keys() of clear returns (ok) and the keys are filtered, or it throws.
ClearList(c, ok) ==
    /\ calls[c].pc = "listing"
    /\ calls' = [calls EXCEPT ![c] =
                    IF ok
                    THEN [@ EXCEPT !.pc = "deleting",
                                   !.todo = cacheKeys(Config("A").storagePrefix, kv)]
                    ELSE [@ EXCEPT !.pc = "rejected"]]
    /\ UNCHANGED <<kv, now, last, hist, model, loading, loads, applied, unloaded>>

\* One await del(key) of the loop of clear is applied (ok) or throws.
ClearDel(c, ok) ==
    /\ calls[c].pc = "deleting"
    /\ calls[c].todo # <<>>
    /\ IF ok
       THEN /\ kv' = del(kv, Head(calls[c].todo))
            /\ calls' = [calls EXCEPT ![c] = [@ EXCEPT !.todo = Tail(calls[c].todo)]]
       ELSE /\ calls' = [calls EXCEPT ![c] = [@ EXCEPT !.pc = "rejected", !.todo = <<>>]]
            /\ UNCHANGED kv
    /\ UNCHANGED <<now, last, hist, model, loading, loads, applied, unloaded>>

\* The loop of clear ends: CacheStorage.clear and NanoCache.clear resolve.
ClearDone(c) ==
    /\ calls[c].pc = "deleting"
    /\ calls[c].todo = <<>>
    /\ calls' = [calls EXCEPT ![c] = [@ EXCEPT !.pc = "resolved"]]
    /\ UNCHANGED <<kv, now, last, hist, model, loading, loads, applied, unloaded>>

\* A save is issued and runs to its first await.
SaveStart(c) ==
    /\ ArgsOf(c).op = "save"
    /\ Start(c)

\* The store holds the entries of save("Aa", "r1") and save("aa", "r1"),
\* both completed at time 0.
InitClear ==
    /\ kv = save("A", Promptaa, "r1", NoMetadata,
                 save("A", PromptAa, "r1", NoMetadata, [k \in {} |-> {}], 0, "none").kv,
                 0, "none").kv
    /\ now = 0
    /\ last = [op |-> "init"]
    /\ hist = [i \in Instances |->
                  [cleared |-> FALSE, had |-> {}, run |-> FALSE, saved |-> {}]]
    /\ model = 0
    /\ loading = 0
    /\ loads = <<>>
    /\ calls = [c \in ClearCalls |->
                   [pc |-> "idle", on |-> 0, entry |-> Pending, t0 |-> 0,
                    todo |-> <<>>, result |-> Pending, had |-> {}]]
    /\ applied = <<>>
    /\ unloaded = FALSE

NextClear ==
    \/ \E c \in ClearCalls : ClearStart(c)
    \/ \E c \in ClearCalls, ok \in BOOLEAN : ClearList(c, ok)
    \/ \E c \in ClearCalls, ok \in BOOLEAN : ClearDel(c, ok)
    \/ \E c \in ClearCalls : ClearDone(c)
    \/ \E c \in ClearCalls : QueryStart(c)
    \/ \E c \in ClearCalls : SaveStart(c)
    \/ \E c \in ClearCalls : Settle(c)
    \/ \E n \in 1..Cardinality(ClearCalls) : LoadSettles(n)
    \/ Tick

SpecClear == InitClear /\ [][NextClear]_vars

\* ------------------------------------------------------------------------
\* cache.ts: createChatWrapper
\* ------------------------------------------------------------------------

\* The separator of join('\n').
Newline == 10

\* The requests passed to the wrapper: model, sampling temperature and
\* messages.  The messages are: a system message only; one user message with
\* empty content; two such messages; a system message and the user message
\* "Aa"; the user message "BB"; and, with another model and temperature,
\* the user message "Aa" followed by an assistant message.
Requests ==
    { [model |-> "m1", temperature |-> 0,
       messages |-> <<[role |-> "system", content |-> <<115>>]>>],
      [model |-> "m1", temperature |-> 0,
       messages |-> <<[role |-> "user", content |-> <<>>]>>],
      [model |-> "m1", temperature |-> 0,
       messages |-> <<[role |-> "user", content |-> <<>>],
                      [role |-> "user", content |-> <<>>]>>],
      [model |-> "m1", temperature |-> 0,
       messages |-> <<[role |-> "system", content |-> <<115>>],
                      [role |-> "user", content |-> PromptAa]>>],
      [model |-> "m1", temperature |-> 0,
       messages |-> <<[role |-> "user", content |-> PromptBB]>>],
      [model |-> "m2", temperature |-> 1,
       messages |-> <<[role |-> "user", content |-> PromptAa],
                      [role |-> "assistant", content |-> <<120>>]>>] }

\* messages.filter(m => m.role === 'user').map(m => m.content)
RECURSIVE userContents(_)
userContents(messages) ==
    IF messages = <<>> THEN <<>>
    ELSE IF Head(messages).role = "user"
    THEN <<Head(messages).content>> \o userContents(Tail(messages))
    ELSE userContents(Tail(messages))

\* Array.prototype.join('\n')
RECURSIVE join(_)
join(parts) ==
    IF parts = <<>> THEN <<>>
    ELSE IF Len(parts) = 1 THEN parts[1]
    ELSE parts[1] \o <<Newline>> \o join(Tail(parts))

\* The content of the last message of the request, whatever its role.
lastContent(messages) ==
    IF messages = <<>> THEN <<>> ELSE messages[Len(messages)].content

\* const userMessage = ...filter(...).map(...).join('\n')
userMessage(messages) == join(userContents(messages))

\* What originalFn does when it is called: it resolves with a response
\* whose first choice has the content "r1" or the empty content, or it
\* rejects.
Originals == {"r1", "", "reject"}

\* wrappedCreate as a whole.  orig is what originalFn does if it is called,
\* qfail and sfail the collaborator failures of the query and of the save.
\* The result names the store it leaves, how the call settled, the content
\* and the model of the returned response ("live": the response is the one
\* originalFn returned), what the wrapper called, and what the cache query
\* returned (cacheHit, cached).
wrappedCreate(i, request, orig, store, t, qfail, sfail) ==
    LET prompt == userMessage(request.messages)
        live == [kv |-> store,
                 outcome |-> IF orig = "reject" THEN "rejected" ELSE "resolved",
                 threw |-> IF orig = "reject" THEN "OriginalError" ELSE "none",
                 content |-> IF orig = "reject" THEN "" ELSE orig,
                 model |-> "live",
                 origCalls |-> 1, queried |-> FALSE, hit |-> FALSE, saved |-> FALSE,
                 cacheHit |-> FALSE, cached |-> ""]
        cacheResult == query(i, prompt, store, t, qfail)
        response == IF cacheResult.result.hit THEN cacheResult.result.response ELSE ""
        missed == [live EXCEPT !.kv = cacheResult.kv, !.queried = TRUE,
                               !.cacheHit = cacheResult.result.hit,
                               !.cached = response]
        saved == save(i, prompt, orig,
                      [model |-> request.model, timestamp |-> "created"],
                      cacheResult.kv, t, sfail)
    IN  IF prompt = <<>> THEN live
        ELSE IF cacheResult.result.hit /\ response # ""
        THEN [kv |-> cacheResult.kv, outcome |-> "resolved", threw |-> "none",
              content |-> response, model |-> request.model,
              origCalls |-> 0, queried |-> TRUE, hit |-> TRUE, saved |-> FALSE,
              cacheHit |-> TRUE, cached |-> response]
        ELSE IF orig = "reject" THEN missed
        ELSE IF orig = "" THEN missed
        ELSE IF saved.outcome = "rejected"
        THEN [missed EXCEPT !.kv = saved.kv, !.outcome = "rejected",
                            !.threw = saved.threw, !.content = "",
                            !.saved = TRUE]
        ELSE [missed EXCEPT !.kv = saved.kv, !.saved = TRUE]

\* A call of the wrapper returned by createChatWrapper(originalFn).
\*   at:      Date.now() of the call
\*   follows: <<c>> when the call before this one was a call of the wrapper
\*            of the same instance with the same user messages, at the same
\*            time, whose query was a Miss, that got the non-empty content c
\*            from originalFn and resolved; <<>> otherwise
Chat(i, request, orig, qfail, sfail) ==
    /\ QueryFailureOccurs(i, kv, now, qfail)
    /\ \E w \in {wrappedCreate(i, request, orig, kv, now, qfail, sfail)} :
           /\ kv' = w.kv
           /\ last' = [op |-> "chat", inst |-> i, messages |-> request.messages,
                       reqModel |-> request.model,
                       orig |-> orig, outcome |-> w.outcome, threw |-> w.threw,
                       content |-> w.content, model |-> w.model,
                       origCalls |-> w.origCalls,
                       queried |-> w.queried, hit |-> w.hit, saved |-> w.saved,
                       cacheHit |-> w.cacheHit, cached |-> w.cached,
                       qfailed |-> qfail[1] # "none",
                       changed |-> w.kv # kv,
                       at |-> now,
                       follows |-> IF /\ last.op = "chat"
                                      /\ last.inst = i
                                      /\ last.at = now
                                      /\ userContents(last.messages) =
                                             userContents(request.messages)
                                      /\ last.queried
                                      /\ ~last.cacheHit
                                      /\ last.outcome = "resolved"
                                      /\ last.content # ""
                                   THEN <<last.content>>
                                   ELSE <<>>]
    /\ UNCHANGED <<now, hist, asyncVars>>

InitChat ==
    /\ kv = [k \in {} |-> {}]
    /\ now = 0
    /\ last = [op |-> "init"]
    /\ hist = [i \in Instances |->
                  [cleared |-> FALSE, had |-> {}, run |-> FALSE, saved |-> {}]]
    /\ AsyncInit

\* The requests of model "m1" that carry the user message "Aa".
RequestsAa ==
    {m \in Requests : m.model = "m1" /\ userMessage(m.messages) = PromptAa}

\* The inputs of a wrapper call: every request with every behaviour of
\* originalFn, and, with an originalFn that resolves with "r1", the request
\* for "Aa" with a failing save and with a failing query.
ChatInputs ==
    {<<m, o, <<"none", 0>>, "none">> : m \in Requests, o \in Originals}
        \cup {<<m, "r1", <<"none", 0>>, f>> : m \in RequestsAa, f \in {"embed", "store"}}
        \cup {<<m, "r1", <<"embed", 0>>, "none">> : m \in RequestsAa}

\* The saves made directly through an instance, not through the wrapper:
\* save("BB", "", {model: "m0"}) on instance A and
\* save("Aa", "r2", {model: "m0"}) on instance B.
DirectSaves == {<<"A", PromptBB, "">>, <<"B", PromptAa, "r2">>}

DirectSave(i, prompt, response) ==
    Save(i, prompt, <<response, [model |-> "m0"]>>, "none")

\* The wrapper is created on instance A; instance B shares the store and is
\* used directly.
ChatInstances == {"A"}

NextChat ==
    \/ \E i \in ChatInstances, in \in ChatInputs : Chat(i, in[1], in[2], in[3], in[4])
    \/ \E d \in DirectSaves : DirectSave(d[1], d[2], d[3])
    \/ Tick

SpecChat == InitChat /\ [][NextChat]_vars

\* ------------------------------------------------------------------------
\* calculateSimilarity applied to bounded vectors of doubles
\* ------------------------------------------------------------------------

\* The greatest length of a vector.
MaxLen == 2

\* The exponent of the large and, negated, of the small component.
BigExp == 600

\* The components: 0, 3, -4, 2^600 and 2^-600.
Components ==
    {FZero, Round(3, 0), Round(-4, 0), Round(1, BigExp), Round(1, -BigExp)}

\* The sequences of components of length len.
RECURSIVE SeqsOf(_)
SeqsOf(len) ==
    IF len = 0 THEN {<<>>}
    ELSE {Append(v, c) : v \in SeqsOf(len - 1), c \in Components}

\* The sum of the squares of a vector has an exact square root.
HasExactNorm(v) ==
    LET sq == Accumulate(v, v, 1, FZero)
    IN  \/ sq.k # "fin"
        \/ sq.n = 0
        \/ sq.x % 2 = 0 /\ \E r \in 1..sq.n : r * r = sq.n

Vectors ==
    {v \in UNION {SeqsOf(len) : len \in 0..MaxLen} : HasExactNorm(v)}

\* A pair of vectors is given to calculateSimilarity.
InitSim ==
    /\ kv = [k \in {} |-> {}]
    /\ now = 0
    /\ \E a \in Vectors, b \in Vectors :
          last = [op |-> "input", vecA |-> a, vecB |-> b,
                  threw |-> FALSE, value |-> FZero]
    /\ hist = [i \in Instances |->
                  [cleared |-> FALSE, had |-> {}, run |-> FALSE, saved |-> {}]]
    /\ AsyncInit

\* calculateSimilarity(vecA, vecB) throws or returns.
Similarity ==
    /\ last.op = "input"
    /\ \E r \in {calculateSimilarity64(last.vecA, last.vecB)} :
           last' = [op |-> "calculateSimilarity", vecA |-> last.vecA,
                    vecB |-> last.vecB, threw |-> r.threw, value |-> r.value]
    /\ UNCHANGED <<kv, now, hist, asyncVars>>

NextSim == Similarity

SpecSim == InitSim /\ [][NextSim]_vars

\* ------------------------------------------------------------------------
\* Properties
\* ------------------------------------------------------------------------

\* The last call was a query through instance i.
LastQuery(i) == last.op = "query" /\ last.inst = i

\* The cosine of the prompt's embedding and a stored entry's.
SimilarityTo(prompt, entry) ==
    calculateSimilarity(generate("all-MiniLM-L6-v2", prompt), entry.embedding).value

\* The keys instance i scans that come before key in the store's order.
ScannedBefore(i, store, key) ==
    {k \in DOMAIN store : IsCacheKey(k, Config(i).storagePrefix) /\ LexLess(k, key)}

\* The greatest similarity of the prompt to an entry instance i scans.
BestSimilarity(i, store, prompt) ==
    LET entries == getAll(Config(i).storagePrefix, store)
        sims == {SimilarityTo(prompt, entries[j]) : j \in 1..Len(entries)}
    IN  CHOOSE s \in sims : \A x \in sims : RLeq(x, s)

\* The keys of the store that belong to the namespace of instance i: the
\* keys "<storagePrefix>:<id>".
OwnKeys(i, store) ==
    {k \in DOMAIN store : StartsWith(k, getKey(Config(i).storagePrefix, <<>>))}

\* The number of entries stored in the namespace of instance i.
OwnCount(i, store) == Cardinality(OwnKeys(i, store))

\* C1: query never rejects: whichever step of it fails (the sweep, the
\* embedding, the fetch of the entries, the scan), it resolves with a Miss
\* that carries nothing but hit = false.
C1_QueryNeverRejects ==
    last.op = "query" =>
        /\ last.outcome = "resolved"
        /\ last.failed # "none" =>
               /\ ~last.result.hit
               /\ DOMAIN last.result = {"hit"}

\* A query whose fetch of the entries threw a StorageError while the
\* namespace held two entries.
C1_Witness ==
    /\ last.op = "query"
    /\ last.failed = "fetch"
    /\ last.threw = "StorageError"
    /\ Len(getAll(Config(last.inst).storagePrefix, kv)) > 1

\* The query followed a resolved save of its prompt through its instance,
\* no step of it failed, and the saved entry is still stored.
RoundTrip ==
    /\ last.op = "query"
    /\ last.failed = "none"
    /\ last.follows # <<>>
    /\ KeyOf(last.inst, last.prompt) \in DOMAIN kv
    /\ kv[KeyOf(last.inst, last.prompt)].prompt = last.prompt

\* Some entry scanned before the saved one is as similar to the prompt as
\* the saved one is.
EarlierTie ==
    \E k \in ScannedBefore(last.inst, kv, KeyOf(last.inst, last.prompt)) :
        SimilarityTo(last.prompt, kv[k]) = ROne

C3_ThresholdDecision ==
    \A i \in Instances :
        (/\ LastQuery(i)
         /\ last.failed = "none"
         /\ Len(getAll(Config(i).storagePrefix, kv)) > 0) =>
            (last.result.hit <=>
                RLeq(Config(i).similarityThreshold,
                     BestSimilarity(i, kv, last.prompt)))

\* The step is a query through an instance with maxAge > 0 (every call but
\* the passing of time leaves now unchanged and sets last to itself).
SweepingQueryStep ==
    /\ now' = now
    /\ last'.op = "query"
    /\ Config(last'.inst).maxAge > 0

\* C4 as claimed: a query at a time >= T + maxAge never returns the entry
\* saved at T and leaves it out of the store.
C4_ExcludedFromMaxAge ==
    [][(SweepingQueryStep /\ last'.failed = "none") =>
          \A k \in OwnKeys(last'.inst, kv) :
              now >= kv[k].timestamp + Config(last'.inst).maxAge =>
                  (k \notin DOMAIN kv' /\ last'.matched # k)]_vars

\* C4 as amended: a query at a time > T + maxAge never returns the entry
\* saved at T, and the entry is out of the store once the sweep completed.
C4_ExcludedPastMaxAge ==
    [][SweepingQueryStep =>
          \A k \in OwnKeys(last'.inst, kv) :
              now > kv[k].timestamp + Config(last'.inst).maxAge =>
                  /\ last'.result.hit => last'.matched # k
                  /\ last'.failed # "sweep" => k \notin DOMAIN kv']_vars

\* A query without failure that removed an expired entry and missed on an
\* empty namespace.
C4_Witness ==
    /\ last.op = "query"
    /\ Config(last.inst).maxAge > 0
    /\ last.failed = "none"
    /\ last.removed > 0
    /\ ~last.result.hit

\* C5 as claimed: a Hit of an instance returns an entry of the instance's
\* own namespace, and its getStats counts only the entries of that
\* namespace.
C5_NamespaceIsolation ==
    \A i \in Instances :
        /\ (LastQuery(i) /\ last.result.hit) => last.matched \in OwnKeys(i, kv)
        /\ (last.op = "getStats" /\ last.inst = i /\ last.outcome = "resolved") =>
               last.result.totalEntries = OwnCount(i, kv)

\* C6 as claimed: clear() of an instance leaves every entry of another
\* namespace present and unchanged.
C6_ClearLeavesOtherNamespaces ==
    [][(now' = now /\ last'.op = "clear") =>
          \A k \in DOMAIN kv \ OwnKeys(last'.inst, kv) :
              k \in DOMAIN kv' /\ kv'[k] = kv[k]]_vars

\* C7: save rejects with the collaborator's error whenever the embedding or
\* the store write fails, and resolves only with the entry {prompt,
\* embedding, response, timestamp, metadata} written under the key of the
\* prompt's hash.
C7_SaveFailLoud ==
    last.op = "save" =>
        /\ last.failed = "embed" =>
               last.outcome = "rejected" /\ last.threw = "EmbeddingError"
        /\ last.failed = "store" =>
               last.outcome = "rejected" /\ last.threw = "StorageError"
        /\ last.outcome = "resolved" =>
               /\ KeyOf(last.inst, last.prompt) \in DOMAIN kv
               /\ kv[KeyOf(last.inst, last.prompt)] =
                      [prompt |-> last.prompt,
                       embedding |-> generate(Config(last.inst).modelName, last.prompt),
                       response |-> last.response,
                       timestamp |-> last.at,
                       metadata |-> last.metadata]

\* A save rejected for the embedding while an older entry of the prompt is
\* stored.
C7_Witness ==
    /\ last.op = "save"
    /\ last.outcome = "rejected"
    /\ last.failed = "embed"
    /\ KeyOf(last.inst, last.prompt) \in DOMAIN kv
    /\ kv[KeyOf(last.inst, last.prompt)].prompt = last.prompt

\* The step is a resolved save of a prompt whose entry was already stored.
ResaveStep ==
    /\ now' = now
    /\ last'.op = "save"
    /\ last'.outcome = "resolved"
    /\ last'.resaved

\* After the step, the namespace holds one entry with the re-saved prompt,
\* carrying the new response, and as many entries as before.
ResaveOverwrites ==
    LET i == last'.inst
        k == KeyOf(i, last'.prompt)
    IN  /\ kv'[k].response = last'.response
        /\ Cardinality({x \in OwnKeys(i, kv') :
                           kv'[x].prompt = last'.prompt}) = 1
        /\ getStats(Config(i).storagePrefix, kv').totalEntries =
               getStats(Config(i).storagePrefix, kv).totalEntries

\* The query followed a re-save of its prompt.
AfterResave == RoundTrip /\ last.follows[2]

C9_ClearEmpties ==
    \A i \in Instances :
        hist[i].cleared =>
            /\ getStats(Config(i).storagePrefix, kv).totalEntries = 0
            /\ LastQuery(i) => ~last.result.hit
            /\ (last.op = "getStats" /\ last.inst = i /\ last.outcome = "resolved") =>
                   last.result.totalEntries = 0

\* A Miss, after clear(), on a prompt that was stored before the clear().
C9_Witness ==
    \E i \in Instances :
        /\ hist[i].cleared
        /\ LastQuery(i)
        /\ last.failed = "none"
        /\ last.prompt \in hist[i].had
        /\ ~last.result.hit

\* getStats resolved for instance i after a run of saves from a cleared
\* cache.
StatsAfterRun(i) ==
    /\ last.op = "getStats"
    /\ last.inst = i
    /\ last.outcome = "resolved"
    /\ hist[i].run

\* C10 as claimed: after k resolved saves of pairwise different prompts
\* from a cleared cache, totalEntries is k.
C10_TotalIsSaveCount ==
    \A i \in Instances :
        StatsAfterRun(i) => last.result.totalEntries = Cardinality(hist[i].saved)

\* C10 as amended: totalEntries is the number of different hash values of
\* the saved prompts.
C10_TotalIsHashCount ==
    \A i \in Instances :
        StatsAfterRun(i) =>
            last.result.totalEntries =
                Cardinality({MathAbs(HashLoop(<<0, 0>>, p, 1)) : p \in hist[i].saved})

\* Three different prompts saved, two of them with the same hash: two
\* entries.
C10_Witness ==
    \E i \in Instances :
        /\ StatsAfterRun(i)
        /\ Cardinality(hist[i].saved) = 3
        /\ last.result.totalEntries = 2

\* The entries instance i fetched in its last query: the entries getAll
\* returns from the store the sweep left.
Fetched(i) == getAll(Config(i).storagePrefix, kv)

\* C11: a query that fetched an empty entry set returns {hit: false} with no
\* similarity field.
C11_EmptyIsBareMiss ==
    \A i \in Instances :
        (LastQuery(i) /\ last.failed = "none" /\ Len(Fetched(i)) = 0) =>
            (~last.result.hit /\ DOMAIN last.result = {"hit"})

\* A query that swept every entry of the namespace as expired and missed on
\* a prompt that was stored.
C11_Witness ==
    /\ last.op = "query"
    /\ last.failed = "none"
    /\ last.removed > 0
    /\ last.prompt \in SavePrompts
    /\ Len(Fetched(last.inst)) = 0
    /\ DOMAIN last.result = {"hit"}

\* C12: a Miss of a query that scanned a non-empty entry set without a
\* failure carries the maximum similarity over the scanned entries, and a
\* result carries a similarity only if an entry was scanned.
C12_MissCarriesBest ==
    \A i \in Instances :
        LastQuery(i) =>
            /\ (last.failed = "none" /\ Len(Fetched(i)) > 0 /\ ~last.result.hit) =>
                   /\ "similarity" \in DOMAIN last.result
                   /\ last.result.similarity = BestSimilarity(i, kv, last.prompt)
            /\ "similarity" \in DOMAIN last.result => Len(Fetched(i)) > 0

\* A Miss over two scanned entries that carries the similarity 3/5.
C12_Witness ==
    /\ last.op = "query"
    /\ last.failed = "none"
    /\ ~last.result.hit
    /\ Len(Fetched(last.inst)) > 1
    /\ last.result.similarity = Rat(3, 5)

\* C13: a Hit carries response, similarity and entry, the response is the
\* entry's, the entry is in the store the query scanned and the similarity
\* is at least the threshold; a Miss carries neither response nor entry.
C13_WellFormedResult ==
    \A i \in Instances :
        LastQuery(i) =>
            IF last.result.hit
            THEN /\ DOMAIN last.result = {"hit", "response", "similarity", "entry"}
                 /\ last.result.response = last.result.entry.response
                 /\ \E j \in 1..Len(Fetched(i)) : Fetched(i)[j] = last.result.entry
                 /\ RLeq(Config(i).similarityThreshold, last.result.similarity)
            ELSE DOMAIN last.result \cap {"response", "entry"} = {}

\* A Hit whose similarity is exactly the threshold 4/5.
C13_Witness ==
    /\ LastQuery("A")
    /\ last.result.hit
    /\ last.result.similarity = Config("A").similarityThreshold
    /\ last.result.entry.prompt = PromptBB

\* C14 as claimed: an InvalidInput raised by calculateSimilarity while query
\* scans the entries rejects the query.
C14_InvalidInputPropagates ==
    (last.op = "query" /\ last.threw = "InvalidInput") => last.outcome = "rejected"

\* The entries stored for a prompt in the namespace of an instance.
StoredFor(i, prompt) == {k \in OwnKeys(i, kv) : kv[k].prompt = prompt}

\* The call whose store write was applied last.
LastApplied == applied[Len(applied)]

\* C15: once a store write of the concurrent saves of one prompt has been
\* applied, exactly one entry is stored for the prompt, and it is, field for
\* field, the entry built by the save whose write was applied last.
C15_LastWriteWins ==
    applied # <<>> =>
        /\ Cardinality(StoredFor("A", PromptAa)) = 1
        /\ DOMAIN kv = {KeyOf("A", PromptAa)}
        /\ kv[KeyOf("A", PromptAa)] = calls[LastApplied].entry

\* Both saves resolved, and the write applied last belongs to the save that
\* built its entry first: the stored entry has the earlier timestamp.
C15_Witness ==
    /\ calls["save1"].pc = "resolved"
    /\ calls["save2"].pc = "resolved"
    /\ Len(applied) = 2
    /\ LastApplied = "save1"
    /\ calls["save1"].entry.timestamp < calls["save2"].entry.timestamp
    /\ kv[KeyOf("A", PromptAa)].response = "r1"

\* The loads of the model that are in flight.
InFlight == {n \in 1..Len(loads) : loads[n] = "inflight"}

\* C16 as claimed: the calls that arrive while a load is in flight await
\* that load, so at most one load is in flight and every waiting call waits
\* for it; and while the model is loaded no load is in flight.
C16_SingleFlight ==
    /\ Cardinality(InFlight) <= 1
    /\ \A c \in AsyncCalls, n \in InFlight :
          calls[c].pc = "awaitLoad" /\ loads[calls[c].on] = "inflight" => calls[c].on = n
    /\ model # 0 => InFlight = {}

\* EmbeddingGenerator.isLoaded: return this.model !== null
isLoaded == model # 0

\* C17 as claimed: from unload until the next call that generates an
\* embedding is issued, isModelLoaded() is false.
C17_UnloadedUntilNextCall == unloaded => ~isLoaded

\* A getStats call of instance i has just resolved.
LastStats(i) == last.op = "getStats" /\ last.inst = i /\ last.outcome = "resolved"

\* C18: a getStats call leaves the store as it is, and every entry of the
\* namespace, expired or not, is counted in totalEntries and lies between
\* oldestEntry and newestEntry.
C18_GetStatsReadOnly ==
    [][(now' = now /\ last'.op = "getStats") =>
          /\ kv' = kv
          /\ last'.outcome = "resolved" =>
                /\ last'.result.totalEntries >= Cardinality(OwnKeys(last'.inst, kv))
                /\ \A k \in OwnKeys(last'.inst, kv) :
                      /\ last'.result.oldestEntry # Null
                      /\ \A t \in last'.result.oldestEntry : t <= kv[k].timestamp
                      /\ \A t \in last'.result.newestEntry : t >= kv[k].timestamp]_vars

\* getStats of an instance with maxAge > 0 counted an entry older than
\* maxAge, and the entry is still stored.
C18_Witness ==
    /\ LastStats("A")
    /\ \E k \in OwnKeys("A", kv) :
          /\ IsExpired(now, kv[k].timestamp, Config("A").maxAge)
          /\ last.result.totalEntries >= 1
          /\ last.result.oldestEntry = {kv[k].timestamp}

\* C19: a query of an instance whose maxAge is 0 deletes nothing, and it
\* hits the stored entry of the queried prompt whatever the entry's age.
C19_NoExpiryAtZero ==
    [][(now' = now /\ last'.op = "query" /\ Config(last'.inst).maxAge = 0) =>
          /\ kv' = kv
          /\ last'.failed = "none" =>
                \A k \in OwnKeys(last'.inst, kv) :
                    kv[k].prompt = last'.prompt =>
                        /\ last'.result.hit
                        /\ last'.result.entry = kv[k]]_vars

\* A query of the instance with maxAge 0 hit an entry as old as the clock
\* allows, older than the maxAge of the other instance.
C19_Witness ==
    /\ LastQuery("B")
    /\ last.result.hit
    /\ now - last.result.entry.timestamp >= MaxTime
    /\ \E k \in OwnKeys("B", kv) : kv[k] = last.result.entry

\* The timestamps of the entries in the namespace of an instance.
OwnTimestamps(i) == {kv[k].timestamp : k \in OwnKeys(i, kv)}

\* C20 as claimed: getStats returns the minimum and the maximum timestamp
\* over the entries of the namespace, and null, null and totalEntries 0
\* exactly when the namespace holds no entry.
C20_StatsOverNamespace ==
    \A i \in Instances :
        LastStats(i) =>
            IF OwnKeys(i, kv) = {}
            THEN last.result = [totalEntries |-> 0, oldestEntry |-> Null,
                                newestEntry |-> Null]
            ELSE /\ last.result.totalEntries >= 1
                 /\ last.result.oldestEntry = {MathMin(OwnTimestamps(i))}
                 /\ last.result.newestEntry = {MathMax(OwnTimestamps(i))}

\* The query calls among the asynchronous calls.
QueryOnly == {c \in QueryCalls : ArgsOf(c).op = "query"}

\* C21: a query that was issued eventually resolves with a Hit or a Miss,
\* whatever the interleaving with the re-save, clear, unload and the loads,
\* provided every call it awaits settles.
C21_QueryResolves ==
    \A c \in QueryOnly :
        (calls[c].pc # "idle") ~>
            (calls[c].pc = "resolved" /\ "hit" \in DOMAIN calls[c].result)

\* The query resolved with a Miss after awaiting a model load that failed.
C21_Witness ==
    /\ calls["query1"].pc = "resolved"
    /\ calls["query1"].on # 0
    /\ loads[calls["query1"].on] = "failed"
    /\ calls["query1"].result = [hit |-> FALSE]

\* C30 as claimed: a delete applied by the sweep of a query removes only an
\* entry whose age exceeds maxAge.
C30_SweepDeletesOnlyExpired ==
    [][\A c \in QueryOnly :
          (/\ calls[c].pc = "sweepDel"
           /\ calls'[c].pc = "sweepDel"
           /\ Len(calls'[c].todo) < Len(calls[c].todo)) =>
              \A k \in DOMAIN kv \ DOMAIN kv' :
                  IsExpired(now, kv[k].timestamp, Config("A").maxAge)]_vars

\* C22 as claimed: on a Miss, whenever originalFn resolves, the wrapper
\* resolves with the content originalFn returned.
C22_MissReturnsLive ==
    (last.op = "chat" /\ last.queried /\ ~last.hit /\ last.orig # "reject") =>
        (last.outcome = "resolved" /\ last.content = last.orig)

\* The request carries no user-authored content: it has no user message,
\* or every user message has the empty content.
NoUserContent(messages) ==
    \A j \in 1..Len(messages) :
        messages[j].role = "user" => messages[j].content = <<>>

\* C23 as claimed: for a request without user-authored content the wrapper
\* calls originalFn once, returns what it returns, runs no query and no
\* save, and leaves the store unchanged.
C23_BypassWithoutUserContent ==
    (last.op = "chat" /\ NoUserContent(last.messages)) =>
        /\ last.origCalls = 1
        /\ ~last.queried
        /\ ~last.saved
        /\ ~last.changed
        /\ last.outcome = (IF last.orig = "reject" THEN "rejected" ELSE "resolved")
        /\ last.orig # "reject" => last.content = last.orig

\* The positions, in the order of the scan, of the fetched entries whose
\* similarity to the prompt of the last query is s.
PositionsAt(i, s) ==
    {j \in 1..Len(Fetched(i)) : SimilarityTo(last.prompt, Fetched(i)[j]) = s}

\* C28: on a Hit no scanned entry is more similar to the prompt than the
\* returned similarity, which is the similarity of the returned entry, and
\* the returned response is the response of that entry.
C28_HitIsMaximum ==
    \A i \in Instances :
        (LastQuery(i) /\ last.result.hit) =>
            /\ \A j \in 1..Len(Fetched(i)) :
                  RLeq(SimilarityTo(last.prompt, Fetched(i)[j]), last.result.similarity)
            /\ SimilarityTo(last.prompt, last.result.entry) = last.result.similarity
            /\ last.result.response = last.result.entry.response

\* A Hit on an entry scanned after an entry of lower, non-zero similarity.
C28_Witness ==
    /\ last.op = "query"
    /\ last.result.hit
    /\ \E j \in 1..Len(Fetched(last.inst)) :
          /\ RLess(RZero, SimilarityTo(last.prompt, Fetched(last.inst)[j]))
          /\ RLess(SimilarityTo(last.prompt, Fetched(last.inst)[j]),
                   last.result.similarity)
    /\ \E j \in 1..Len(Fetched(last.inst)) :
          /\ RLess(SimilarityTo(last.prompt, Fetched(last.inst)[j]),
                   last.result.similarity)
          /\ \E h \in PositionsAt(last.inst, last.result.similarity) : j > h

\* C29: on a Hit the returned entry is the first, in the order of the
\* scan, of the entries that achieve the returned similarity.
C29_FirstMaximumWins ==
    \A i \in Instances :
        (LastQuery(i) /\ last.result.hit) =>
            \E j \in PositionsAt(i, last.result.similarity) :
                /\ \A h \in PositionsAt(i, last.result.similarity) : j <= h
                /\ last.result.entry = Fetched(i)[j]

\* A Hit with two different entries that achieve the returned similarity.
C29_Witness ==
    /\ last.op = "query"
    /\ last.result.hit
    /\ \E j, h \in PositionsAt(last.inst, last.result.similarity) :
          /\ j < h
          /\ Fetched(last.inst)[j] # Fetched(last.inst)[h]
          /\ last.result.entry = Fetched(last.inst)[j]

\* ------------------------------------------------------------------------
\* The two hashPrompt methods applied to bounded prompts
\* ------------------------------------------------------------------------

\* The greatest length of a hashed prompt.
MaxPromptLen == 5

\* The code units of the hashed prompts: "A", "B", "a" and U+FFFF.
HashChars == {65, 66, 97, 65535}

\* The strings over HashChars of length len.
RECURSIVE StringsOf(_)
StringsOf(len) ==
    IF len = 0 THEN {<<>>}
    ELSE {Append(p, ch) : p \in StringsOf(len - 1), ch \in HashChars}

HashPrompts == UNION {StringsOf(len) : len \in 0..MaxPromptLen}

\* An instance is about to save a prompt into an empty store.
InitHash ==
    /\ kv = [k \in {} |-> {}]
    /\ now = 0
    /\ \E i \in Instances, p \in HashPrompts :
          last = [op |-> "input", inst |-> i, prompt |-> p]
    /\ hist = [i \in Instances |->
                  [cleared |-> FALSE, had |-> {}, run |-> FALSE, saved |-> {}]]
    /\ AsyncInit

\* save(prompt, "r1") writes the entry under the key of NanoCache.hashPrompt;
\* the sweep computes the key to delete for that entry with
\* CacheStorage.hashPrompt.
HashBoth ==
    /\ last.op = "input"
    /\ LET s == save(last.inst, last.prompt, "r1", NoMetadata, kv, now, "none")
           written == CHOOSE key \in DOMAIN s.kv : TRUE
       IN  /\ kv' = s.kv
           /\ last' = [op |-> "hashPrompt", inst |-> last.inst,
                       prompt |-> last.prompt,
                       hash |-> HashLoop(<<0, 0>>, last.prompt, 1),
                       cacheId |-> hashPrompt(last.prompt),
                       storageId |-> storageHashPrompt(last.prompt),
                       written |-> written,
                       swept |-> ExpiredKey(Config(last.inst).storagePrefix,
                                            s.kv[written])]
    /\ UNCHANGED <<now, hist, asyncVars>>

NextHash == HashBoth

SpecHash == InitHash /\ [][NextHash]_vars

\* ------------------------------------------------------------------------
\* Properties of calculateSimilarity
\* ------------------------------------------------------------------------

\* calculateSimilarity has thrown or returned for the pair in last.
SimDone == last.op = "calculateSimilarity"

\* Every component of v is zero.
IsZeroVector(v) == \A i \in DOMAIN v : IsZero(v[i])

\* The double a lies within [0, 1].
InUnitInterval(a) == a.k = "fin" /\ a.n >= 0 /\ ~GreaterThanOne(a)

\* C24: calculateSimilarity throws for every pair of vectors of different
\* lengths, an empty vector and a zero vector among them; it returns no
\* number for such a pair.
C24_MismatchedLengthsThrow ==
    SimDone /\ Len(last.vecA) # Len(last.vecB) => last.threw

\* An empty vector and a zero vector of length two: thrown.
C24_Witness ==
    /\ SimDone
    /\ last.vecA = <<>>
    /\ last.vecB = <<FZero, FZero>>
    /\ last.threw

\* C25 as claimed: for every pair of vectors of equal length with finite
\* components, calculateSimilarity returns a value within [0, 1].
C25_ResultWithinUnitInterval ==
    SimDone /\ Len(last.vecA) = Len(last.vecB)
        => ~last.threw /\ InUnitInterval(last.value)

\* C26 as claimed: for every vector v with a component other than zero,
\* calculateSimilarity(v, v) returns 1.
C26_SelfSimilarityIsOne ==
    SimDone /\ last.vecA = last.vecB /\ ~IsZeroVector(last.vecA)
        => ~last.threw /\ last.value = FOne

\* C27: calculateSimilarity returns 0 for two vectors of equal length of
\* which the first, the second or both are zero vectors, and for two
\* vectors of length 0.
C27_ZeroVectorGivesZero ==
    /\ SimDone /\ Len(last.vecA) = Len(last.vecB)
           /\ (IsZeroVector(last.vecA) \/ IsZeroVector(last.vecB))
        => ~last.threw /\ last.value = FZero
    /\ SimDone /\ last.vecA = <<>> /\ last.vecB = <<>>
        => ~last.threw /\ last.value = FZero

\* A vector of magnitude 5 against the zero vector of its length: 0.
C27_Witness ==
    /\ SimDone
    /\ ~IsZeroVector(last.vecA)
    /\ Len(last.vecB) = MaxLen
    /\ IsZeroVector(last.vecB)
    /\ ~last.threw
    /\ last.value = FZero

\* ------------------------------------------------------------------------
\* Properties of hashPrompt
\* ------------------------------------------------------------------------

\* C39: for every prompt, CacheStorage.hashPrompt returns the string
\* NanoCache.hashPrompt returns, and the key the sweep computes for an entry
\* that save wrote in its namespace is the key under which save wrote it.
C39_HashesAgree ==
    last.op = "hashPrompt" =>
        /\ last.storageId = last.cacheId
        /\ last.swept = last.written
        /\ last.written \in OwnKeys(last.inst, kv)

\* A prompt whose 32-bit hash is negative before Math.abs.
C39_Witness ==
    /\ last.op = "hashPrompt"
    /\ last.hash[1] >= 32768
    /\ last.storageId = last.cacheId
    /\ last.swept = last.written

\* ------------------------------------------------------------------------
\* Properties of a query suspended between its sweep and its scan
\* ------------------------------------------------------------------------

\* The entries that getAll returns from store and that are within maxAge
\* at time t.
LiveEntries(i, store, t) ==
    {store[k] : k \in {key \in DOMAIN store :
                          /\ IsCacheKey(key, Config(i).storagePrefix)
                          /\ ~IsExpired(t, store[key].timestamp, Config(i).maxAge)}}

\* C31 as claimed: with maxAge > 0, when a query fetches the entries for
\* its scan, the entry it returns as a Hit is within maxAge at that moment,
\* and a similarity it reports on a Miss is zero or that of an entry within
\* maxAge at that moment.
C31_ExpiredNeverInfluences ==
    [][\A c \in QueryOnly :
          (/\ Config("A").maxAge > 0
           /\ calls[c].pc = "fetching"
           /\ calls'[c].pc = "resolved") =>
              LET result == calls'[c].result
                  live == LiveEntries("A", kv, now)
              IN  /\ result.hit => result.entry \in live
                  /\ (~result.hit /\ "similarity" \in DOMAIN result) =>
                        \/ result.similarity = RZero
                        \/ \E e \in live :
                              SimilarityTo(ArgsOf(c).prompt, e) = result.similarity]_vars

\* ------------------------------------------------------------------------
\* Properties of save: what it leaves alone
\* ------------------------------------------------------------------------

\* The step is a call of save (every call but the passing of time leaves
\* now unchanged and sets last to itself).
SaveStep ==
    /\ now' = now
    /\ last'.op = "save"

\* The entry under key k is present and the same after the step.
Kept(k) == k \in DOMAIN kv' /\ kv'[k] = kv[k]

\* C32 as claimed: a save of prompt p leaves every stored entry whose
\* prompt text differs from p present and unchanged.
C32_SaveKeepsOtherPrompts ==
    [][SaveStep =>
          \A k \in DOMAIN kv : kv[k].prompt # last'.prompt => Kept(k)]_vars

\* C32 as amended: a save of prompt p leaves every entry under another key
\* than the key of p present and unchanged, hence every entry whose prompt
\* has another hashPrompt value than p.
C32_SaveKeepsOtherKeys ==
    [][SaveStep =>
          \A k \in DOMAIN kv :
              (\/ k # KeyOf(last'.inst, last'.prompt)
               \/ hashPrompt(kv[k].prompt) # hashPrompt(last'.prompt)) => Kept(k)]_vars

\* A resolved save of "aa" that left the older entry of "Aa" in place.
C32_Witness ==
    /\ last.op = "save"
    /\ last.outcome = "resolved"
    /\ last.inst = "A"
    /\ last.prompt = Promptaa
    /\ KeyOf("A", PromptAa) \in DOMAIN kv
    /\ kv[KeyOf("A", PromptAa)].prompt = PromptAa
    /\ kv[KeyOf("A", PromptAa)].timestamp < last.at

\* C33: a save whose embedding generation fails rejects and leaves the
\* store as it was: it writes no entry, and an entry stored for the same
\* prompt keeps its response and timestamp.
C33_FailedEmbeddingWritesNothing ==
    [][(SaveStep /\ last'.failed = "embed") =>
          (kv' = kv /\ last'.outcome = "rejected")]_vars

\* A save of "Aa" with response "r2" failed on its embedding at a later
\* time than the entry of "Aa" with response "r1" was written; the entry
\* is in the store.
C33_Witness ==
    /\ last.op = "save"
    /\ last.failed = "embed"
    /\ last.prompt = PromptAa
    /\ KeyOf(last.inst, PromptAa) \in DOMAIN kv
    /\ kv[KeyOf(last.inst, PromptAa)].response = "r1"
    /\ kv[KeyOf(last.inst, PromptAa)].timestamp < now

\* ------------------------------------------------------------------------
\* Properties of the model load after a failure
\* ------------------------------------------------------------------------

\* Some load has failed and none has succeeded or is in progress since.
LoadFailed ==
    /\ loads # <<>>
    /\ loads[Len(loads)] = "failed"
    /\ model = 0

\* Call c leaves the position pc in the step.
Leaves(c, pc) == calls[c].pc = pc /\ calls'[c].pc # pc

\* C35: a load that rejects resets this.loading; a call issued after the
\* failure starts a fresh load and awaits it; when that load succeeds the
\* call returns from initialize and, the model being set when generate
\* tests it, runs the inference and obtains the embedding (a save goes on
\* to write an entry carrying it).
C35_FailedLoadRecovers ==
    [][/\ \A n \in DOMAIN loads :
             (loads[n] = "inflight" /\ loads'[n] = "failed") => loading' = 0
       /\ \A c \in AsyncCalls :
             /\ (Leaves(c, "idle") /\ LoadFailed) =>
                    /\ calls'[c].pc = "awaitLoad"
                    /\ calls'[c].on = Len(loads) + 1
                    /\ loading' = calls'[c].on
                    /\ loads'[calls'[c].on] = "inflight"
             /\ (Leaves(c, "awaitLoad") /\ loads[calls[c].on] = "done") =>
                    calls'[c].pc = "initialized"
             /\ (Leaves(c, "initialized") /\ model # 0) =>
                    calls'[c].pc = "embedding"
             /\ Leaves(c, "embedding") =>
                    IF ArgsOf(c).op = "save"
                    THEN /\ calls'[c].pc = "writing"
                         /\ calls'[c].entry.embedding =
                                generate(Config("A").modelName, ArgsOf(c).prompt)
                    ELSE calls'[c].pc = "resolved"]_vars

\* The first load failed and rejected save1; save2, issued afterwards,
\* started the second load, which succeeded, and wrote its entry.
C35_Witness ==
    /\ Len(loads) = 2
    /\ loads[1] = "failed"
    /\ loads[2] = "done"
    /\ calls["save1"].pc = "rejected"
    /\ calls["save1"].on = 1
    /\ calls["save2"].pc = "resolved"
    /\ calls["save2"].on = 2
    /\ applied = <<"save2">>
    /\ kv[KeyOf("A", PromptAa)].response = "r2"

\* ------------------------------------------------------------------------
\* Properties of clear interleaved with other calls
\* ------------------------------------------------------------------------

\* The entries in the store.
Stored == {kv[k] : k \in DOMAIN kv}

\* C34: once clear() has resolved, no entry that was stored when clear()
\* was invoked is in the store, however the listing and the deletions of
\* clear interleave with the steps of a save and of a query.
C34_ClearRemovesEarlierEntries ==
    \A c \in ClearCalls :
        (ArgsOf(c).op = "clear" /\ calls[c].pc = "resolved") =>
            calls[c].had \cap Stored = {}

\* clear() resolved after removing the two entries stored at its
\* invocation, and the store holds the entry of the re-save that was in
\* progress when clear() was invoked: it was built before and written after
\* the deletion of its key.
C34_Witness ==
    /\ calls["clear1"].pc = "resolved"
    /\ Cardinality(calls["clear1"].had) = 2
    /\ KeyOf("A", PromptAa) \in DOMAIN kv
    /\ kv[KeyOf("A", PromptAa)].response = "r2"
    /\ kv[KeyOf("A", PromptAa)].timestamp < calls["clear1"].t0

\* ------------------------------------------------------------------------
\* Properties of the chat wrapper: Hit, round trip, and what decides
\* ------------------------------------------------------------------------

\* The wrapper was called with a request that has a user message of
\* non-empty content, and settled.
ChatWithContent ==
    /\ last.op = "chat"
    /\ ~NoUserContent(last.messages)

\* C36 as claimed: for a request with user content the wrapper calls
\* originalFn exactly when the cache query is not a Hit, and on every Hit,
\* whatever the cached text, it returns a response with the cached text
\* and the request's model without calling originalFn and without saving.
C36_OriginalIffNotHit ==
    ChatWithContent =>
        /\ (last.origCalls = 1) <=> ~last.cacheHit
        /\ last.cacheHit =>
              /\ last.outcome = "resolved"
              /\ last.content = last.cached
              /\ last.model = last.reqModel
              /\ ~last.saved

\* C37: a wrapper call that immediately follows a call with the same user
\* messages which missed, got the non-empty content c from originalFn and
\* resolved returns the content c without calling originalFn, provided no
\* collaborator call of its cache query fails.
C37_ChatRoundTrip ==
    (ChatWithContent /\ last.follows # <<>> /\ ~last.qfailed) =>
        /\ last.outcome = "resolved"
        /\ last.hit
        /\ last.content = last.follows[1]
        /\ last.origCalls = 0

\* The second of two calls for "BB": the first saved the live content
\* "r1", the second returned it without calling an originalFn that would
\* have rejected.
C37_Witness ==
    /\ ChatWithContent
    /\ userMessage(last.messages) = PromptBB
    /\ last.follows = <<"r1">>
    /\ last.hit
    /\ last.content = "r1"
    /\ last.origCalls = 0
    /\ last.orig = "reject"

\* The requests with the user-role contents of request r, in the same
\* order.
SameUserContents(r) ==
    {q \in Requests : userContents(q.messages) = userContents(r.messages)}

\* What the wrapper decides for a request against the store of the state.
Decision(i, r) ==
    LET w == wrappedCreate(i, r, "r1", kv, now, <<"none", 0>>, "none")
    IN  [queried |-> w.queried, hit |-> w.hit,
         content |-> IF w.hit THEN w.content ELSE ""]

\* C38: against one store, two requests with the same user-role contents
\* in the same order get the same Hit or Miss and, on a Hit, the same
\* cached text, whatever their model, their sampling parameters and their
\* other messages.
C38_DecisionFromUserContents ==
    \A i \in ChatInstances, r \in Requests :
        \A q \in SameUserContents(r) : Decision(i, q) = Decision(i, r)

\* The request of model "m2" hit the entry that the request of model "m1"
\* with the same user message, a system message and no assistant message
\* had saved.
C38_Witness ==
    /\ last.op = "chat"
    /\ last.reqModel = "m2"
    /\ last.hit
    /\ last.content = "r1"
    /\ kv[KeyOf(last.inst, PromptAa)].metadata.model = "m1"
    /\ kv[KeyOf(last.inst, PromptAa)].response = "r1"
    /\ \E r \in Requests :
          /\ r.model = "m1"
          /\ r \in SameUserContents([messages |-> last.messages])

====
